---- MODULE Spec2Model ----
(***************************************************************************)
(* A model of create-rsk-dapp: the project-name validator, the manifest    *)
(* merger, the environment-file writer, the createProject orchestrator     *)
(* with the init command that calls it, the network registry, the deploy   *)
(* command and what the files of the two generative templates refer to.    *)
(*                                                                         *)
(* Strings that the code inspects character by character (project names)   *)
(* are sequences of one-character strings; file paths, messages and        *)
(* commands, which the code only compares or passes on, are TLA+ strings.  *)
(***************************************************************************)
EXTENDS Integers, Sequences, FiniteSets, TLC

VARIABLES
    pc,          \* position in the init action / createProject / the call under study
    args,        \* what the caller passed (command line of init)
    name,        \* the project name (a sequence of characters)
    validation,  \* result of validateProjectName(name), or NoResult
    template,    \* template identifier handed to createProject
    exists,      \* TRUE iff projectPath exists on disk
    files,       \* entries inside projectPath: path -> content
    pre,         \* snapshot of <<exists, files>> when the call under study started
    pending,     \* error caught by createProject's catch block, or NoError
    thrown,      \* error that left createProject (or the call under study), or NoError
    cmds,        \* external commands run so far, in order
    warnings,    \* spinner.warn messages, in order
    printed,     \* what the init action printed last: "none", "error", "success"
    exitCode,    \* process exit code: -1 while running
    packageManager,  \* package manager handed to createProject
    templateDir, \* the packaged template directory templates/<template>, if any
    prompt,      \* the private-key prompt of deploy: last input and validate's answer
    output,      \* text the deployment command printed, a sequence of words
    report,      \* address and explorer URL deploy reported, or NoReport
    foreign,     \* entries another process put into projectPath: path -> content
    deploys      \* how many times deploy was started again in the working directory

vars == <<pc, args, name, validation, template, exists, files, pre, pending,
          thrown, cmds, warnings, printed, exitCode, packageManager, templateDir,
                   prompt, output, report, foreign, deploys>>

----------------------------------------------------------------------------
(* Bounds of the model *)

\* longest project name enumerated character by character
MaxNameLen == 3

\* validation.ts:29, and the limit inside the package-naming rule set
MaxNameLength == 214

----------------------------------------------------------------------------
(* Values of the deploy command's variables before deploy has acted *)

\* the private-key prompt has not been shown
NotAsked == [asked |-> FALSE, attempts |-> 0, input |-> <<>>, answer |-> "none"]

\* no deployment command has printed anything
NoOutput == <<>>

\* deploy has reported no contract address
NoReport == [found |-> FALSE, address |-> "", explorerUrl |-> <<>>]

----------------------------------------------------------------------------
(* Characters and strings-as-sequences *)

LowerLetters ==
    {"a","b","c","d","e","f","g","h","i","j","k","l","m",
     "n","o","p","q","r","s","t","u","v","w","x","y","z"}

UpperLetters ==
    {"A","B","C","D","E","F","G","H","I","J","K","L","M",
     "N","O","P","Q","R","S","T","U","V","W","X","Y","Z"}

Digits == {"0","1","2","3","4","5","6","7","8","9"}

UpperSeq ==
    <<"A","B","C","D","E","F","G","H","I","J","K","L","M",
      "N","O","P","Q","R","S","T","U","V","W","X","Y","Z">>

LowerSeq ==
    <<"a","b","c","d","e","f","g","h","i","j","k","l","m",
      "n","o","p","q","r","s","t","u","v","w","x","y","z">>

\* String.prototype.toLowerCase, one character
ToLowerChar(c) ==
    IF c \in UpperLetters
    THEN LowerSeq[CHOOSE i \in 1..26 : UpperSeq[i] = c]
    ELSE c

\* String.prototype.toLowerCase
ToLowerCase(s) == [i \in 1..Len(s) |-> ToLowerChar(s[i])]

\* white space removed by String.prototype.trim (the characters the inputs use)
WhiteSpace == {" "}

\* String.prototype.trim() leaves s unchanged
TrimIsIdentity(s) ==
    s = <<>> \/ (s[1] \notin WhiteSpace /\ s[Len(s)] \notin WhiteSpace)

\* characters encodeURIComponent leaves alone
UriUnreserved ==
    LowerLetters \cup UpperLetters \cup Digits
        \cup {"-", "_", ".", "!", "~", "*", "'", "(", ")"}

\* encodeURIComponent of one character: itself, or a percent escape
EncodeChar(c) ==
    IF c \in UriUnreserved THEN <<c>>
    ELSE IF c = " " THEN <<"%", "2", "0">>
    ELSE IF c = "@" THEN <<"%", "4", "0">>
    ELSE IF c = "/" THEN <<"%", "2", "F">>
    ELSE <<"%", "?", "?">>

\* encodeURIComponent(s) !== s.  The encoding of s is the concatenation of
\* its characters' encodings, so it differs from s exactly when some
\* character is escaped.
UriEncodingChanges(s) == \E i \in 1..Len(s) : EncodeChar(s[i]) # <<s[i]>>

\* the one-character string c repeated n times
Rep(c, n) == [i \in 1..n |-> c]

\* index of the first "/" of s, or 0
FirstSlash(s) ==
    IF \E i \in 1..Len(s) : s[i] = "/"
    THEN CHOOSE i \in 1..Len(s) : s[i] = "/" /\ \A j \in 1..(i-1) : s[j] # "/"
    ELSE 0

\* the part of s after its last "/" : name.split('/').slice(-1)[0]
LastSegment(s) ==
    IF \E i \in 1..Len(s) : s[i] = "/"
    THEN LET k == CHOOSE i \in 1..Len(s) :
                      s[i] = "/" /\ \A j \in (i+1)..Len(s) : s[j] # "/"
         IN  SubSeq(s, k + 1, Len(s))
    ELSE s

----------------------------------------------------------------------------
(* The package-naming rule set (validate-npm-package-name), which           *)
(* validateProjectName calls first.                                        *)

\* names the rule set refuses outright
Blacklist ==
    { [chars |-> <<"n","o","d","e","_","m","o","d","u","l","e","s">>,
       msg   |-> "node_modules is a blacklisted name"],
      [chars |-> <<"f","a","v","i","c","o","n",".","i","c","o">>,
       msg   |-> "favicon.ico is a blacklisted name"] }

\* core module names (those short enough to matter for the inputs, and http)
Builtins ==
    { [chars |-> <<"f","s">>,         msg |-> "fs is a core module name"],
      [chars |-> <<"o","s">>,         msg |-> "os is a core module name"],
      [chars |-> <<"v","m">>,         msg |-> "vm is a core module name"],
      [chars |-> <<"d","n","s">>,     msg |-> "dns is a core module name"],
      [chars |-> <<"n","e","t">>,     msg |-> "net is a core module name"],
      [chars |-> <<"s","y","s">>,     msg |-> "sys is a core module name"],
      [chars |-> <<"t","l","s">>,     msg |-> "tls is a core module name"],
      [chars |-> <<"t","t","y">>,     msg |-> "tty is a core module name"],
      [chars |-> <<"u","r","l">>,     msg |-> "url is a core module name"],
      [chars |-> <<"h","t","t","p">>, msg |-> "http is a core module name"] }

\* the messages of the entries of table whose name equals s, as a sequence
RECURSIVE MsgsOf(_, _)
MsgsOf(table, s) ==
    IF table = {} THEN <<>>
    ELSE LET e == CHOOSE x \in table : TRUE
         IN  (IF e.chars = s THEN <<e.msg>> ELSE <<>>) \o MsgsOf(table \ {e}, s)

\* the special characters the rule set no longer allows in the last segment
SpecialChars == {"~", "'", "!", "(", ")", "*"}

\* scopedPackagePattern ^(?:@([^/]+?)[/])?([^/]+?)$ matches s as @user/pkg
\* with user and pkg both unchanged by encodeURIComponent
ScopedAndUrlFriendly(s) ==
    LET k == FirstSlash(s)
    IN  /\ Len(s) >= 4
        /\ s[1] = "@"
        /\ k > 2
        /\ k < Len(s)
        /\ \A j \in (k+1)..Len(s) : s[j] # "/"
        /\ LET user == SubSeq(s, 2, k - 1)
               pkg  == SubSeq(s, k + 1, Len(s))
           IN  ~UriEncodingChanges(user) /\ ~UriEncodingChanges(pkg)

\* done(warnings, errors): empty lists are deleted from the result
NpmDone(warns, errs) ==
    [validForNewPackages |-> (errs = <<>> /\ warns = <<>>),
     validForOldPackages |-> (errs = <<>>),
     hasErrors   |-> (errs # <<>>),
     hasWarnings |-> (warns # <<>>),
     errors   |-> errs,
     warnings |-> warns]

\* validate(name) of the package-naming rule set, for a string argument
ValidateNpmPackageName(s) ==
    LET e1 == IF Len(s) = 0 THEN <<"name length must be greater than zero">> ELSE <<>>
        e2 == IF Len(s) > 0 /\ s[1] = "."
              THEN <<"name cannot start with a period">> ELSE <<>>
        e3 == IF Len(s) > 0 /\ s[1] = "_"
              THEN <<"name cannot start with an underscore">> ELSE <<>>
        e4 == IF ~TrimIsIdentity(s)
              THEN <<"name cannot contain leading or trailing spaces">> ELSE <<>>
        e5 == MsgsOf(Blacklist, ToLowerCase(s))
        w1 == MsgsOf(Builtins, ToLowerCase(s))
        w2 == IF Len(s) > MaxNameLength
              THEN <<"name can no longer contain more than 214 characters">> ELSE <<>>
        w3 == IF ToLowerCase(s) # s
              THEN <<"name can no longer contain capital letters">> ELSE <<>>
        w4 == IF \E i \in 1..Len(LastSegment(s)) : LastSegment(s)[i] \in SpecialChars
              THEN <<"name can no longer contain special characters">> ELSE <<>>
        e6 == IF UriEncodingChanges(s) /\ ~ScopedAndUrlFriendly(s)
              THEN <<"name can only contain URL-friendly characters">> ELSE <<>>
    IN  NpmDone(w1 \o w2 \o w3 \o w4, e1 \o e2 \o e3 \o e4 \o e5 \o e6)

----------------------------------------------------------------------------
(* validateProjectName *)

LengthMessage == "Project name must be 214 characters or less"

CharsetMessage ==
    "Project name can only contain lowercase letters, numbers, hyphens, dots, and underscores"

\* the characters of the class [a-z0-9-._]
AllowedChars == LowerLetters \cup Digits \cup {"-", ".", "_"}

\* the test with the underscore missing from the class
MatchesCharsetNoUnderscore(s) ==
    Len(s) >= 1 /\ \A i \in 1..Len(s) : s[i] \in LowerLetters \cup Digits \cup {"-", "."}

\* /^[a-z0-9-._]+$/.test(name)
MatchesCharset(s) == Len(s) >= 1 /\ \A i \in 1..Len(s) : s[i] \in AllowedChars

\* the validator without its character-set rule
ValidateProjectNameNoCharset(s) ==
    LET result == ValidateNpmPackageName(s)
    IN  IF ~result.validForNewPackages
        THEN [valid |-> FALSE,
              errors |-> (IF result.hasErrors THEN result.errors ELSE <<>>)
                         \o (IF result.hasWarnings THEN result.warnings ELSE <<>>)]
        ELSE IF Len(s) > MaxNameLength
        THEN [valid |-> FALSE, errors |-> <<LengthMessage>>]
        ELSE [valid |-> TRUE, errors |-> <<>>]

\* the validator collecting the messages of all three rules
ValidateProjectNameCollectAll(s) ==
    LET result == ValidateNpmPackageName(s)
        errs == (IF result.hasErrors THEN result.errors ELSE <<>>)
                \o (IF result.hasWarnings THEN result.warnings ELSE <<>>)
                \o (IF Len(s) > MaxNameLength THEN <<LengthMessage>> ELSE <<>>)
                \o (IF ~MatchesCharset(s) THEN <<CharsetMessage>> ELSE <<>>)
    IN  [valid |-> (errs = <<>>), errors |-> errs]

ValidateProjectName(s) ==
    LET result == ValidateNpmPackageName(s)
    IN  IF ~result.validForNewPackages
        THEN [valid |-> FALSE,
              errors |-> (IF result.hasErrors THEN result.errors ELSE <<>>)
                         \o (IF result.hasWarnings THEN result.warnings ELSE <<>>)]
        ELSE IF Len(s) > MaxNameLength
        THEN [valid |-> FALSE, errors |-> <<LengthMessage>>]
        ELSE IF ~MatchesCharset(s)
        THEN [valid |-> FALSE, errors |-> <<CharsetMessage>>]
        ELSE [valid |-> TRUE, errors |-> <<>>]

----------------------------------------------------------------------------
(* The file system under projectPath.  A path is the sequence of its       *)
(* segments; files maps each existing entry to its content.  A directory   *)
(* has content Dir, package.json files hold a parsed JSON object (a        *)
(* function from field names to values), text files hold a sequence of     *)
(* lines or a tag naming the generated text.                               *)

Dir == "dir"

NoFiles == <<>>

\* fs.pathExists(path.join(projectPath, ...p))
PathExists(fs, p) == p \in DOMAIN fs

\* the proper ancestors of path p inside projectPath
Ancestors(p) == { SubSeq(p, 1, k) : k \in 1..(Len(p) - 1) }

\* fs.ensureDir(path.join(projectPath, ...p)): the directory and its parents
EnsureDir(fs, p) ==
    LET new == (Ancestors(p) \cup {p}) \ DOMAIN fs
    IN  [q \in DOMAIN fs \cup new |-> IF q \in new THEN Dir ELSE fs[q]]

\* fs.writeFile / fs.writeJson(path.join(projectPath, ...p), content)
WriteFile(fs, p, content) ==
    [q \in DOMAIN fs \cup {p} |-> IF q = p THEN content ELSE fs[q]]

----------------------------------------------------------------------------
(* updatePackageJson *)

\* a JSON object with field k set to v
SetField(obj, k, v) ==
    [x \in DOMAIN obj \cup {k} |-> IF x = k THEN v ELSE obj[x]]

\* the spread with the operands swapped: existing entries win
SpreadFirstWins(a, b) ==
    [k \in DOMAIN a \cup DOMAIN b |-> IF k \in DOMAIN a THEN a[k] ELSE b[k]]

\* { ...a, ...b }
Spread(a, b) ==
    [k \in DOMAIN a \cup DOMAIN b |-> IF k \in DOMAIN b THEN b[k] ELSE a[k]]

\* the additionalDeps argument left out
NoDeps == [given |-> FALSE, deps |-> <<>>]

PackageJsonPath == <<"package.json">>

InitialVersion == "0.1.0"

\* a fresh object with the four managed fields only: what the call read is dropped
UpdatedManifestFresh(packageJson, projectName, additionalDeps) ==
    [name |-> projectName, version |-> InitialVersion, private |-> TRUE,
     dependencies |-> additionalDeps.deps]

\* the object updatePackageJson writes back for the object it read
UpdatedManifest(packageJson, projectName, additionalDeps) ==
    LET p1 == SetField(packageJson, "name", projectName)
        p2 == SetField(p1, "version", InitialVersion)
        p3 == SetField(p2, "private", TRUE)
    IN  IF additionalDeps.given
        THEN SetField(p3, "dependencies",
                      Spread(IF "dependencies" \in DOMAIN p3
                             THEN p3["dependencies"] ELSE <<>>,
                             additionalDeps.deps))
        ELSE p3

\* updatePackageJson without the existence test: a missing manifest is created
UpdatePackageJsonCreates(fs, projectName, additionalDeps) ==
    WriteFile(fs, PackageJsonPath,
              UpdatedManifest(IF PathExists(fs, PackageJsonPath)
                              THEN fs[PackageJsonPath] ELSE <<>>,
                              projectName, additionalDeps))

\* updatePackageJson(projectPath, projectName, additionalDeps), no I/O error
UpdatePackageJson(fs, projectName, additionalDeps) ==
    IF PathExists(fs, PackageJsonPath)
    THEN WriteFile(fs, PackageJsonPath,
                   UpdatedManifest(fs[PackageJsonPath], projectName, additionalDeps))
    ELSE fs

----------------------------------------------------------------------------
(* createEnvFile and createGitignore.  A text file is a sequence of lines, *)
(* a line a sequence of tokens, "=" being a token of its own.              *)

EnvContent ==
    << <<"# Rootstock Configuration">>,
       <<"# DO NOT COMMIT THIS FILE TO VERSION CONTROL">>,
       <<>>,
       <<"# Private Keys (NEVER share these!)">>,
       <<"PRIVATE_KEY", "=", "your_private_key_here">>,
       <<>>,
       <<"# Rootstock Testnet RPC URLs">>,
       <<"VITE_RSK_TESTNET_RPC_URL", "=", "https://public-node.testnet.rsk.co">>,
       <<"RSK_TESTNET_RPC_URL", "=", "https://public-node.testnet.rsk.co">>,
       <<>>,
       <<"# Rootstock Mainnet RPC URLs (use with caution!)">>,
       <<"VITE_RSK_MAINNET_RPC_URL", "=", "https://public-node.rsk.co">>,
       <<"RSK_MAINNET_RPC_URL", "=", "https://public-node.rsk.co">>,
       <<>>,
       <<"# Explorer URLs">>,
       <<"VITE_RSK_TESTNET_EXPLORER", "=", "https://explorer.testnet.rsk.co">>,
       <<"VITE_RSK_MAINNET_EXPLORER", "=", "https://explorer.rsk.co">>,
       <<>>,
       <<"# Chain IDs">>,
       <<"VITE_RSK_TESTNET_CHAIN_ID", "=", "31">>,
       <<"VITE_RSK_MAINNET_CHAIN_ID", "=", "30">>,
       <<>>,
       <<"# Contract Addresses (will be populated after deployment)">>,
       <<"VITE_CONTRACT_ADDRESS", "=">>,
       <<>> >>

\* the line copied as it is: the value stays in the sibling file
RedactLineKeepsValue(line) == line

\* one line with /=.*/ replaced by "=": cut after the first "="
RedactLine(line) ==
    IF \E i \in 1..Len(line) : line[i] = "="
    THEN SubSeq(line, 1, CHOOSE i \in 1..Len(line) :
                             line[i] = "=" /\ \A j \in 1..(i-1) : line[j] # "=")
    ELSE line

\* envContent.replace(/=.*/g, '=')
Redact(content) == [i \in 1..Len(content) |-> RedactLine(content[i])]

EnvPath == <<".env">>
EnvExamplePath == <<".env.example">>
GitignorePath == <<".gitignore">>

\* the lines of the ignore list that matter: the secrets file is among them
GitignoreContent ==
    << <<"node_modules/">>, <<"dist/">>, <<".env">>, <<".env.local">>,
       <<"cache/">>, <<"artifacts/">>, <<"cache_forge/">>, <<"*.log">> >>

\* the writes of createEnvFile, in order
EnvWrites ==
    << [path |-> EnvPath, dir |-> FALSE, content |-> EnvContent],
       [path |-> EnvExamplePath, dir |-> FALSE, content |-> Redact(EnvContent)] >>

\* the write of createGitignore
GitignoreWrites == << [path |-> GitignorePath, dir |-> FALSE, content |-> GitignoreContent] >>

----------------------------------------------------------------------------
(* The generative templates: the directories and files each procedure      *)
(* creates, in the order of its calls.                                     *)

DefaultName == <<"r","s","k","-","d","a","p","p">>

HardhatRootPackageJson ==
    [name |-> DefaultName, version |-> InitialVersion, private |-> TRUE,
     scripts |-> "hardhat scripts", devDependencies |-> "hardhat devDependencies"]

FoundryRootPackageJson ==
    [name |-> DefaultName, version |-> InitialVersion, private |-> TRUE,
     scripts |-> "foundry scripts", devDependencies |-> "concurrently"]

FrontendDirs ==
    << <<"frontend", "src", "components">>, <<"frontend", "src", "hooks">>,
       <<"frontend", "src", "utils">>, <<"frontend", "src", "contracts">>,
       <<"frontend", "public">> >>

\* the frontend files both procedures write, given the theme
FrontendWrites(theme) ==
    << [path |-> <<"frontend", "package.json">>, dir |-> FALSE, content |-> "frontendPackageJson"],
       [path |-> <<"frontend", "vite.config.js">>, dir |-> FALSE, content |-> "viteConfig"],
       [path |-> <<"frontend", "index.html">>, dir |-> FALSE, content |-> "indexHtml"],
       [path |-> <<"frontend", "src", "main.jsx">>, dir |-> FALSE, content |-> "mainJsx"],
       [path |-> <<"frontend", "src", "App.jsx">>, dir |-> FALSE, content |-> "appJsx"],
       [path |-> <<"frontend", "src", "App.css">>, dir |-> FALSE, content |-> theme],
       [path |-> <<"frontend", "src", "index.css">>, dir |-> FALSE, content |-> theme] >>

DirWrites(dirs) ==
    [i \in 1..Len(dirs) |-> [path |-> dirs[i], dir |-> TRUE, content |-> Dir]]

\* createHardhatReactTemplate
HardhatReactWrites ==
    DirWrites(<< <<"contracts">>, <<"scripts">>, <<"test">> >> \o FrontendDirs)
    \o << [path |-> PackageJsonPath, dir |-> FALSE, content |-> HardhatRootPackageJson],
          [path |-> <<"hardhat.config.js">>, dir |-> FALSE, content |-> "hardhatConfig"],
          [path |-> <<"contracts", "RootstockGreeter.sol">>, dir |-> FALSE, content |-> "sampleContract"],
          [path |-> <<"scripts", "deploy.js">>, dir |-> FALSE, content |-> "deployScript"],
          [path |-> <<"test", "RootstockGreeter.test.js">>, dir |-> FALSE, content |-> "testFile"] >>
    \o FrontendWrites("hardhat theme")

\* createFoundryViteTemplate
FoundryViteWrites ==
    DirWrites(<< <<"contracts", "src">>, <<"contracts", "test">>,
                 <<"contracts", "script">> >> \o FrontendDirs)
    \o << [path |-> PackageJsonPath, dir |-> FALSE, content |-> FoundryRootPackageJson],
          [path |-> <<"contracts", "foundry.toml">>, dir |-> FALSE, content |-> "foundryToml"],
          [path |-> <<"contracts", "src", "RootstockGreeter.sol">>, dir |-> FALSE, content |-> "sampleContract"],
          [path |-> <<"contracts", "script", "Deploy.s.sol">>, dir |-> FALSE, content |-> "deployScript"],
          [path |-> <<"contracts", "test", "RootstockGreeter.t.sol">>, dir |-> FALSE, content |-> "testFile"] >>
    \o FrontendWrites("foundry theme")

\* createTemplateStructure: the writes for a template id; none for an id
\* that is neither of the two
TemplateWrites(t) ==
    IF t = "hardhat-react" THEN HardhatReactWrites
    ELSE IF t = "foundry-vite" THEN FoundryViteWrites
    ELSE <<>>

\* the first n writes of ws applied to fs, in order
RECURSIVE ApplyWrites(_, _, _)
ApplyWrites(fs, ws, n) ==
    IF n = 0 THEN fs
    ELSE LET w == ws[n]
             before == ApplyWrites(fs, ws, n - 1)
         IN  IF w.dir THEN EnsureDir(before, w.path)
             ELSE WriteFile(before, w.path, w.content)

----------------------------------------------------------------------------
(* copyTemplate: fs.copy with the name filter *)

NameFragments == {"node_modules", ".git", "dist", ".DS_Store"}

\* basename.includes(fragment), for the entry names that occur
Substrings ==
    { <<"node_modules", "node_modules">>, <<".git", ".git">>,
      <<".gitignore", ".git">>, <<".github", ".git">>,
      <<"dist", "dist">>, <<"redist", "dist">>, <<".DS_Store", ".DS_Store">> }

Includes(basename, fragment) == <<basename, fragment>> \in Substrings

\* the filter callback of copyTemplate, on the base name of the source path
CopyFilter(basename) ==
    /\ ~Includes(basename, "node_modules")
    /\ ~Includes(basename, ".git")
    /\ ~Includes(basename, "dist")
    /\ ~Includes(basename, ".DS_Store")

\* the filter applied to each entry's own name only, its parents unseen
CopyWritesOwnName(tdir, rootName) ==
    SelectSeq(tdir.writes, LAMBDA w : CopyFilter(w.path[Len(w.path)]))

\* fs.copy walks the tree from the template root and does not descend into
\* an entry the filter rejects: the entries that get copied, in order
CopyWrites(tdir, rootName) ==
    IF CopyFilter(rootName)
    THEN SelectSeq(tdir.writes,
                   LAMBDA w : \A i \in 1..Len(w.path) : CopyFilter(w.path[i]))
    ELSE <<>>

----------------------------------------------------------------------------
(* Errors and external commands *)

NoError == [kind |-> "none", step |-> "none"]

DirectoryExists == [kind |-> "DirectoryExists", step |-> "check"]

IOError(step) == [kind |-> "IOError", step |-> step]

NoResult == [valid |-> FALSE, errors |-> <<"not validated">>]

GitCommands == <<"git init", "git add -A", "git commit -m Initial commit">>

GitWarning == "Git repository initialization skipped"

InstallWarning == "Failed to install dependencies. Please run install manually."

\* one command for every package manager
InstallCommandNpmOnly(pm) == "npm install"

\* installCommand of createProject
InstallCommand(pm) ==
    IF pm = "yarn" THEN "yarn"
    ELSE IF pm = "pnpm" THEN "pnpm install"
    ELSE "npm install"

\* execSync(cmd, { cwd: projectPath }) as recorded in cmds
Exec(cmd, ok) == [cmd |-> cmd, cwd |-> "projectPath", ok |-> ok]

\* the git commands run when the k-th of them fails (k = 0: none fails)
GitRun(k) ==
    [i \in 1..(IF k = 0 THEN Len(GitCommands) ELSE k) |->
        Exec(GitCommands[i], i # k)]

\* a clean-up that removes nothing
RemoveDirKeeps(e, fs) == [exists |-> e, files |-> fs]

\* fs.remove(projectPath): the directory and everything in it
RemoveDir(e, fs) == [exists |-> FALSE, files |-> NoFiles]

\* the error createProject rethrows from its catch block
Rethrow(err) == err

----------------------------------------------------------------------------
(* createProject *)

Snapshot == [exists |-> exists, files |-> files]

\* createProject without the existence check
CheckExistsSkipped ==
    /\ pc = "createProject"
    /\ pc' = "mkdir"
    /\ UNCHANGED <<args, name, validation, template, exists, files, pre, pending,
                   thrown, cmds, warnings, printed, exitCode, packageManager, templateDir,
                   prompt, output, report, foreign, deploys>>

\* lines 68-71: the existence check
CheckExists ==
    /\ pc = "createProject"
    /\ IF exists
       THEN /\ thrown' = DirectoryExists
            /\ pc' = "returned"
       ELSE /\ thrown' = thrown
            /\ pc' = "mkdir"
    /\ UNCHANGED <<args, name, validation, template, exists, files, pre, pending,
                   cmds, warnings, printed, exitCode, packageManager, templateDir,
                   prompt, output, report, foreign, deploys>>

\* lines 76-79: fs.ensureDir(projectPath)
Mkdir ==
    /\ pc = "mkdir"
    /\ \E ok \in BOOLEAN :
         IF ok
         THEN /\ exists' = TRUE
              /\ files' = (IF exists THEN files ELSE NoFiles)
              /\ pending' = pending
              /\ pc' = "template"
         ELSE /\ UNCHANGED <<exists, files>>
              /\ pending' = IOError("mkdir")
              /\ pc' = "catch"
    /\ UNCHANGED <<args, name, validation, template, pre, thrown,
                   cmds, warnings, printed, exitCode, packageManager, templateDir,
                   prompt, output, report, foreign, deploys>>

\* the outcomes of a step that performs the writes ws in order and may fail
\* before any of them: the files written, the error caught, where it goes on
WriteOutcomes(fs, ws, here, next) ==
    { [files   |-> ApplyWrites(fs, ws, n),
       pending |-> IF n = Len(ws) THEN NoError ELSE IOError(here),
       pc      |-> IF n = Len(ws) THEN next ELSE "catch"] : n \in 0..Len(ws) }

\* lines 82-91: copy the packaged template, or generate the structure
MaterializeWrites ==
    IF templateDir.exists
    THEN CopyWrites(templateDir, template)
    ELSE TemplateWrites(template)

Materialize ==
    /\ pc = "template"
    /\ \E o \in WriteOutcomes(files, MaterializeWrites, "template", "manifest") :
         files' = o.files /\ pending' = o.pending /\ pc' = o.pc
    /\ UNCHANGED <<args, name, validation, template, exists, pre, thrown,
                   cmds, warnings, printed, exitCode, packageManager, templateDir,
                   prompt, output, report, foreign, deploys>>

\* the step with its failure passed over: the next step runs all the same
ManifestFailureIgnored ==
    /\ pc = "manifest"
    /\ \/ /\ files' = UpdatePackageJson(files, name, NoDeps)
          /\ pending' = pending
       \/ /\ PathExists(files, PackageJsonPath)
          /\ files' = files
          /\ pending' = IOError("manifest")
    /\ pc' = "env"
    /\ UNCHANGED <<args, name, validation, template, exists, pre, thrown,
                   cmds, warnings, printed, exitCode, packageManager, templateDir,
                   prompt, output, report, foreign, deploys>>

\* lines 94-96: updatePackageJson(projectPath, name)
Manifest ==
    /\ pc = "manifest"
    /\ \/ /\ files' = UpdatePackageJson(files, name, NoDeps)
          /\ pending' = pending
          /\ pc' = "env"
       \/ /\ PathExists(files, PackageJsonPath)
          /\ files' = files
          /\ pending' = IOError("manifest")
          /\ pc' = "catch"
    /\ UNCHANGED <<args, name, validation, template, exists, pre, thrown,
                   cmds, warnings, printed, exitCode, packageManager, templateDir,
                   prompt, output, report, foreign, deploys>>

\* lines 99-101: createEnvFile
EnvFiles ==
    /\ pc = "env"
    /\ \E o \in WriteOutcomes(files, EnvWrites, "env", "gitignore") :
         files' = o.files /\ pending' = o.pending /\ pc' = o.pc
    /\ UNCHANGED <<args, name, validation, template, exists, pre, thrown,
                   cmds, warnings, printed, exitCode, packageManager, templateDir,
                   prompt, output, report, foreign, deploys>>

\* the step without createGitignore: no ignore list is written
GitignoreSkipped ==
    /\ pc = "gitignore"
    /\ pc' = "git"
    /\ UNCHANGED <<args, name, validation, template, exists, files, pre, pending,
                   thrown, cmds, warnings, printed, exitCode, packageManager,
                   templateDir, prompt, output, report, foreign, deploys>>

\* lines 104-106: createGitignore
Gitignore ==
    /\ pc = "gitignore"
    /\ \E o \in WriteOutcomes(files, GitignoreWrites, "gitignore", "git") :
         files' = o.files /\ pending' = o.pending /\ pc' = o.pc
    /\ UNCHANGED <<args, name, validation, template, exists, pre, thrown,
                   cmds, warnings, printed, exitCode, packageManager, templateDir,
                   prompt, output, report, foreign, deploys>>

\* the git block without its own try/catch: a failing command reaches the
\* outer catch block
GitFatal ==
    /\ pc = "git"
    /\ IF args.skipGit
       THEN UNCHANGED <<cmds, files, pending>> /\ pc' = "install"
       ELSE \E k \in 0..Len(GitCommands) :
              /\ cmds' = cmds \o GitRun(k)
              /\ files' = (IF k = 1 THEN files ELSE EnsureDir(files, <<".git">>))
              /\ pending' = (IF k = 0 THEN pending ELSE IOError("git"))
              /\ pc' = (IF k = 0 THEN "install" ELSE "catch")
    /\ UNCHANGED <<args, name, validation, template, exists, pre, thrown, warnings,
                   printed, exitCode, packageManager, templateDir,
                   prompt, output, report, foreign, deploys>>

\* lines 109-122: git init, add, commit; a failure is only a warning
Git ==
    /\ pc = "git"
    /\ IF args.skipGit
       THEN UNCHANGED <<cmds, warnings, files>>
       ELSE \E k \in 0..Len(GitCommands) :
              /\ cmds' = cmds \o GitRun(k)
              /\ warnings' = (IF k = 0 THEN warnings ELSE Append(warnings, GitWarning))
              /\ files' = (IF k = 1 THEN files ELSE EnsureDir(files, <<".git">>))
    /\ pc' = "install"
    /\ UNCHANGED <<args, name, validation, template, exists, pre, pending, thrown,
                   printed, exitCode, packageManager, templateDir,
                   prompt, output, report, foreign, deploys>>

\* lines 125-140: the install command; a failure is only a warning
Install ==
    /\ pc = "install"
    /\ IF args.skipInstall
       THEN UNCHANGED <<cmds, warnings, files>>
       ELSE \E ok \in BOOLEAN :
              /\ cmds' = Append(cmds, Exec(InstallCommand(packageManager), ok))
              /\ warnings' = (IF ok THEN warnings ELSE Append(warnings, InstallWarning))
              /\ files' = (IF ok THEN EnsureDir(files, <<"node_modules">>) ELSE files)
    /\ pc' = "returned"
    /\ UNCHANGED <<args, name, validation, template, exists, pre, pending, thrown,
                   printed, exitCode, packageManager, templateDir,
                   prompt, output, report, foreign, deploys>>

\* lines 142-147: the catch block removes projectPath and rethrows
Catch ==
    /\ pc = "catch"
    /\ exists' = RemoveDir(exists, files).exists
    /\ files' = RemoveDir(exists, files).files
    /\ thrown' = Rethrow(pending)
    /\ pc' = "returned"
    /\ UNCHANGED <<args, name, validation, template, pre, pending,
                   cmds, warnings, printed, exitCode, packageManager, templateDir,
                   prompt, output, report, foreign, deploys>>

----------------------------------------------------------------------------
(* The init command *)

SupportedTemplates == {"hardhat-react", "foundry-vite"}

PackageManagers == {"npm", "yarn", "pnpm"}

\* names offered on the command line or typed at the prompt
ProjectNames == { <<"a">>, <<"a", "-", "0">>, <<"A">>, <<"a", " ">> }

\* lines 39-105: resolve name, template and package manager; an invalid
\* name prints an error and exits with code 1
InitAction ==
    /\ pc = "init"
    /\ \E inputName \in { n \in ProjectNames : ValidateProjectName(n).valid },
          selectedTemplate \in SupportedTemplates,
          selectedPm \in PackageManagers :
         LET nm == IF args.name = <<>> THEN inputName ELSE args.name
             v  == ValidateProjectName(nm)
         IN  /\ name' = nm
             /\ validation' = v
             /\ IF ~v.valid
                THEN /\ printed' = "error"
                     /\ exitCode' = 1
                     /\ pc' = "exited"
                     /\ UNCHANGED <<template, packageManager, pre>>
                ELSE /\ template' = (IF args.template = "" THEN selectedTemplate
                                     ELSE args.template)
                     /\ packageManager' = (IF args.packageManager \in PackageManagers
                                           THEN args.packageManager ELSE selectedPm)
                     /\ pre' = Snapshot
                     /\ pc' = "createProject"
                     /\ UNCHANGED <<printed, exitCode>>
    /\ UNCHANGED <<args, exists, files, pending, thrown, cmds, warnings, templateDir,
                   prompt, output, report, foreign, deploys>>

\* lines 117-142: success message, or the catch block printing the error
\* and exiting with code 1
InitReturn ==
    /\ pc = "returned"
    /\ IF thrown = NoError
       THEN printed' = "success" /\ exitCode' = 0
       ELSE printed' = "error" /\ exitCode' = 1
    /\ pc' = "exited"
    /\ UNCHANGED <<args, name, validation, template, exists, files, pre, pending,
                   thrown, cmds, warnings, packageManager, templateDir,
                   prompt, output, report, foreign, deploys>>

----------------------------------------------------------------------------
(* Initial states *)

UserManifest ==
    [name |-> <<"u">>, version |-> "2.3.4", scripts |-> "user scripts"]

\* what a directory that is already at projectPath may hold
UserFiles ==
    { NoFiles,
      WriteFile(NoFiles, <<"notes.txt">>, "user notes"),
      WriteFile(WriteFile(NoFiles, <<"notes.txt">>, "user notes"),
                PackageJsonPath, UserManifest) }

NoTemplateDir == [exists |-> FALSE, writes |-> <<>>]

PackagedManifest ==
    [name |-> <<"t">>, version |-> "1.0.0", scripts |-> "template scripts"]

\* a packaged template with a manifest and with entries the filter drops
PackagedFull ==
    [exists |-> TRUE,
     writes |->
       << [path |-> PackageJsonPath, dir |-> FALSE, content |-> PackagedManifest],
          [path |-> <<"contracts">>, dir |-> TRUE, content |-> Dir],
          [path |-> <<"contracts", "Greeter.sol">>, dir |-> FALSE, content |-> "packaged contract"],
          [path |-> <<"node_modules">>, dir |-> TRUE, content |-> Dir],
          [path |-> <<"node_modules", "dep.js">>, dir |-> FALSE, content |-> "dependency"],
          [path |-> <<".gitignore">>, dir |-> FALSE, content |-> <<"packaged ignore list">>],
          [path |-> <<"redist">>, dir |-> FALSE, content |-> "packaged notes"] >>]

\* a packaged template without a manifest
PackagedBare ==
    [exists |-> TRUE,
     writes |-> << [path |-> <<"README.md">>, dir |-> FALSE, content |-> "readme"] >>]

PackagedTemplates == {NoTemplateDir, PackagedFull, PackagedBare}

InitArgs ==
    [name : ProjectNames \cup {<<>>},
     template : SupportedTemplates \cup {"", "unknown-template"},
     packageManager : PackageManagers \cup {"bun"},
     skipInstall : BOOLEAN,
     skipGit : BOOLEAN]

Init ==
    /\ pc = "init"
    /\ args \in InitArgs
    /\ name = <<>>
    /\ validation = NoResult
    /\ template = ""
    /\ packageManager = ""
    /\ exists \in BOOLEAN
    /\ files \in (IF exists THEN UserFiles ELSE {NoFiles})
    /\ pre = [exists |-> exists, files |-> files]
    /\ pending = NoError
    /\ thrown = NoError
    /\ cmds = <<>>
    /\ warnings = <<>>
    /\ printed = "none"
    /\ exitCode = -1
    /\ templateDir \in PackagedTemplates
    /\ prompt = NotAsked
    /\ output = NoOutput
    /\ report = NoReport
    /\ foreign = NoFiles
    /\ deploys = 0

Next ==
    \/ InitAction
    \/ CheckExists
    \/ Mkdir
    \/ Materialize
    \/ Manifest
    \/ EnvFiles
    \/ Gitignore
    \/ Git
    \/ Install
    \/ Catch
    \/ InitReturn

Spec == Init /\ [][Next]_vars

----------------------------------------------------------------------------
(* validateProjectName on its own: every name over Alphabet up to          *)
(* MaxNameLen characters, and the long and reserved names of ExtraNames.   *)

Alphabet == {"a", "f", "s", "0", "-", ".", "_", "A", " ", "@", "/", "~"}

ExtraNames ==
    { <<"n","o","d","e","_","m","o","d","u","l","e","s">>,
      <<"f","a","v","i","c","o","n",".","i","c","o">>,
      <<"h","t","t","p">>,
      <<"@","a","/","a">>,
      <<"@","a","/","a","A">>,
      Rep("a", MaxNameLength - 1),
      Rep("a", MaxNameLength),
      Rep("a", MaxNameLength + 1),
      Rep("a", MaxNameLength) \o <<"A">>,
      Rep("a", MaxNameLength) \o <<"@">>,
      <<"@","a","/">> \o Rep("a", MaxNameLength - 3),
      <<"@","a","/">> \o Rep("a", MaxNameLength - 2) }

Names == UNION { [1..k -> Alphabet] : k \in 0..MaxNameLen } \cup ExtraNames

InitValidate ==
    /\ pc = "validate"
    /\ name \in Names
    /\ validation = NoResult
    /\ args = <<>>
    /\ template = ""
    /\ packageManager = ""
    /\ exists = FALSE
    /\ files = NoFiles
    /\ pre = [exists |-> FALSE, files |-> NoFiles]
    /\ pending = NoError
    /\ thrown = NoError
    /\ cmds = <<>>
    /\ warnings = <<>>
    /\ printed = "none"
    /\ exitCode = -1
    /\ templateDir = NoTemplateDir
    /\ prompt = NotAsked
    /\ output = NoOutput
    /\ report = NoReport
    /\ foreign = NoFiles
    /\ deploys = 0

\* a call validateProjectName(name)
Validate ==
    /\ pc = "validate"
    /\ validation' = ValidateProjectName(name)
    /\ pc' = "validated"
    /\ UNCHANGED <<args, name, template, exists, files, pre, pending, thrown,
                   cmds, warnings, printed, exitCode, packageManager, templateDir,
                   prompt, output, report, foreign, deploys>>

NextValidate == Validate

SpecValidate == InitValidate /\ [][NextValidate]_vars

----------------------------------------------------------------------------
(* updatePackageJson on its own: a project directory with or without a     *)
(* manifest, a project name and an optional map of extra dependencies.     *)

DepKeys == {"a", "b"}

Versions == {"1.0", "2.0"}

DepMaps == UNION { [ks -> Versions] : ks \in SUBSET DepKeys }

\* the field k absent, or present with one of the values vs
Optional(k, vs) == { <<>> } \cup { k :> v : v \in vs }

Manifests ==
    { n @@ v @@ p @@ d @@ sc @@ dd @@ en :
        n  \in Optional("name", { <<"u">>, <<"a">> }),
        v  \in Optional("version", { "0.1.0", "2.3.4" }),
        p  \in Optional("private", BOOLEAN),
        d  \in Optional("dependencies", DepMaps),
        sc \in Optional("scripts", { "user scripts" }),
        dd \in Optional("devDependencies", { "user devDependencies" }),
        en \in Optional("engines", { "node >= 18" }) }

OtherFiles == WriteFile(NoFiles, <<"notes.txt">>, "user notes")

ManifestDirs ==
    { NoFiles, OtherFiles }
        \cup { WriteFile(OtherFiles, PackageJsonPath, m) : m \in Manifests }

AdditionalDeps == { NoDeps } \cup { [given |-> TRUE, deps |-> d] : d \in DepMaps }

InitManifest ==
    /\ pc = "merge"
    /\ name \in { <<"a">>, <<"f", "s">> }
    /\ args \in [additionalDeps : AdditionalDeps]
    /\ exists = TRUE
    /\ files \in ManifestDirs
    /\ pre = [exists |-> TRUE, files |-> files]
    /\ validation = NoResult
    /\ template = ""
    /\ packageManager = ""
    /\ pending = NoError
    /\ thrown = NoError
    /\ cmds = <<>>
    /\ warnings = <<>>
    /\ printed = "none"
    /\ exitCode = -1
    /\ templateDir = NoTemplateDir
    /\ prompt = NotAsked
    /\ output = NoOutput
    /\ report = NoReport
    /\ foreign = NoFiles
    /\ deploys = 0

\* a call updatePackageJson(projectPath, name, additionalDeps); reading or
\* writing an existing manifest may fail, fs.pathExists never does
UpdateManifestCall ==
    /\ pc = "merge"
    /\ \/ /\ files' = UpdatePackageJson(files, name, args.additionalDeps)
          /\ thrown' = thrown
       \/ /\ PathExists(files, PackageJsonPath)
          /\ files' = files
          /\ thrown' = IOError("manifest")
    /\ pc' = "merged"
    /\ UNCHANGED <<args, name, validation, template, exists, pre, pending,
                   cmds, warnings, printed, exitCode, packageManager, templateDir,
                   prompt, output, report, foreign, deploys>>

NextManifest == UpdateManifestCall

SpecManifest == InitManifest /\ [][NextManifest]_vars

----------------------------------------------------------------------------
(* Properties of createProject and of the init command (checked under Spec) *)

\* createProject was called and has returned to the init action
CreateProjectReturned == pc = "returned" \/ (pc = "exited" /\ validation.valid)

\* some command of cs was run and failed
CommandFailed(cs) == \E i \in 1..Len(cmds) : cmds[i].cmd \in cs /\ ~cmds[i].ok

GitCommandSet == { GitCommands[i] : i \in 1..Len(GitCommands) }

InstallCommandSet == { InstallCommand(pm) : pm \in PackageManagers }

Warned(w) == \E i \in 1..Len(warnings) : warnings[i] = w

C2_ExistingDirUntouched ==
    pre.exists
        => /\ exists
           /\ files = pre.files
           /\ cmds = <<>>
           /\ pc \notin {"mkdir", "template", "manifest", "env", "gitignore",
                         "git", "install", "catch"}
           /\ CreateProjectReturned => thrown = DirectoryExists

\* C2 witness: a directory holding a user's file was there, the call returned
\* DirectoryExists
C2_Witness ==
    /\ pc = "returned"
    /\ pre.exists
    /\ PathExists(files, <<"notes.txt">>)
    /\ thrown = DirectoryExists

\* the complete project tree: root manifest, secrets file, redacted secrets
\* template, ignore list, and a contract and a frontend subtree
CompleteTree(fs) ==
    {PackageJsonPath, EnvPath, EnvExamplePath, GitignorePath,
     <<"contracts">>, <<"frontend">>} \subseteq DOMAIN fs

\* C3: whenever createProject has returned, projectPath does not exist or
\* holds the complete project tree (stated for calls that found no directory
\* at projectPath and no packaged template directory, any template id).
C3_AllOrNothing ==
    (CreateProjectReturned /\ ~pre.exists /\ ~templateDir.exists)
        => (~exists \/ CompleteTree(files))

\* C4: a failed git or install command never makes createProject fail and
\* never removes projectPath; it is reported as a warning; and after a git
\* failure the install command still runs unless skipInstall is set.
C4_GitInstallBestEffort ==
    (CommandFailed(GitCommandSet) \/ CommandFailed(InstallCommandSet))
        => /\ exists
           /\ {EnvPath, EnvExamplePath, GitignorePath} \subseteq DOMAIN files
           /\ pending = NoError
           /\ pc # "catch"
           /\ CommandFailed(GitCommandSet) => Warned(GitWarning)
           /\ CommandFailed(InstallCommandSet) => Warned(InstallWarning)
           /\ CreateProjectReturned
                => /\ thrown = NoError
                   /\ (CommandFailed(GitCommandSet) /\ ~args.skipInstall)
                        => \E i \in 1..Len(cmds) :
                               cmds[i].cmd = InstallCommand(packageManager)

\* C4 witness: git commit failed, the install command ran after it and
\* failed too, and createProject returned normally
C4_Witness ==
    /\ pc = "returned"
    /\ \E i \in 1..Len(cmds) : cmds[i].cmd = GitCommands[3] /\ ~cmds[i].ok
    /\ CommandFailed(InstallCommandSet)
    /\ thrown = NoError
    /\ exists

\* C5: init given a template id that is not one of the two supported
\* templates prints an error and exits with code 1, and no project directory
\* exists afterwards (stated for a valid name, no directory at projectPath
\* before the call and no packaged template directory).
C5_UnknownTemplateRejected ==
    (/\ pc = "exited"
     /\ validation.valid
     /\ args.template \notin SupportedTemplates \cup {""}
     /\ ~pre.exists
     /\ ~templateDir.exists)
        => (printed = "error" /\ exitCode = 1 /\ ~exists)

----------------------------------------------------------------------------
(* Properties of validateProjectName (checked under SpecValidate) *)

\* every character of s is a lowercase letter, a digit, "-", "." or "_"
OnlyAllowedChars(s) ==
    \A i \in 1..Len(s) :
        \/ s[i] \in LowerLetters
        \/ s[i] \in Digits
        \/ s[i] = "-" \/ s[i] = "." \/ s[i] = "_"

\* C6: a name of 1 to 214 characters, all of them lowercase letters, digits,
\* hyphen, period or underscore, that the package-naming rule set accepts is
\* valid, with an empty error list.
C6_AcceptsConformingNames ==
    (/\ pc = "validated"
     /\ Len(name) >= 1
     /\ Len(name) <= 214
     /\ OnlyAllowedChars(name)
     /\ ValidateNpmPackageName(name).validForNewPackages)
        => (validation.valid /\ validation.errors = <<>>)

\* C6 witness: a conforming name of the maximal length was validated
C6_Witness ==
    /\ pc = "validated"
    /\ Len(name) = 214
    /\ OnlyAllowedChars(name)
    /\ validation.valid

\* C7: a name with an uppercase letter, a space or any other character
\* outside the allowed set is invalid with at least one error message, and
\* no name is invalid with an empty error list.
C7_RejectsForeignChars ==
    pc = "validated"
        => /\ ~OnlyAllowedChars(name)
                => (~validation.valid /\ Len(validation.errors) >= 1)
           /\ ~validation.valid => Len(validation.errors) >= 1

\* C7 witness: a scoped name the package-naming rule set accepts was rejected
\* by the character-set rule
C7_Witness ==
    /\ pc = "validated"
    /\ name = <<"@", "a", "/", "a">>
    /\ ValidateNpmPackageName(name).validForNewPackages
    /\ ~validation.valid
    /\ validation.errors = <<CharsetMessage>>

\* the messages of the package-naming rule set for s: errors, then warnings
NpmMessages(s) ==
    ValidateNpmPackageName(s).errors \o ValidateNpmPackageName(s).warnings

\* C8 as claimed: the error list holds, in rule order, a message for every
\* violated rule (naming convention, length, character set).
C8_AllViolationsCollected ==
    pc = "validated"
        => validation.errors =
              NpmMessages(name)
              \o (IF Len(name) > 214 THEN <<LengthMessage>> ELSE <<>>)
              \o (IF Len(name) = 0 \/ ~OnlyAllowedChars(name)
                  THEN <<CharsetMessage>> ELSE <<>>)

\* C8 amended: the rules are applied in order and the validator stops at the
\* first violated rule: the error list holds the messages of that rule only.
C8_FirstViolatedRuleOnly ==
    pc = "validated"
        => validation.errors =
              IF NpmMessages(name) # <<>> THEN NpmMessages(name)
              ELSE IF Len(name) > 214 THEN <<LengthMessage>>
              ELSE IF Len(name) = 0 \/ ~OnlyAllowedChars(name) THEN <<CharsetMessage>>
              ELSE <<>>

\* C8 witness: a name violating the naming convention and the character set
\* got the naming-convention message only
C8_Witness ==
    /\ pc = "validated"
    /\ name = <<"A">>
    /\ validation.errors = <<"name can no longer contain capital letters">>

----------------------------------------------------------------------------
(* Properties of updatePackageJson (checked under SpecManifest) *)

\* the dependency map of manifest m, empty when it has none
DepsOf(m) == IF "dependencies" \in DOMAIN m THEN m["dependencies"] ELSE <<>>

\* C9: when a manifest exists and the call succeeds, the manifest has
\* name = projectName, version = 0.1.0, private = true, and its dependency
\* map is the previous map overlaid with the extra dependencies: a key of
\* extra has extra's value, every other key keeps its previous value.
C9_ManifestMerged ==
    (pc = "merged" /\ PathExists(pre.files, PackageJsonPath) /\ thrown = NoError)
        => /\ PathExists(files, PackageJsonPath)
           /\ LET old   == pre.files[PackageJsonPath]
                  new   == files[PackageJsonPath]
                  extra == args.additionalDeps.deps
              IN  /\ {"name", "version", "private"} \subseteq DOMAIN new
                  /\ new["name"] = name
                  /\ new["version"] = "0.1.0"
                  /\ new["private"] = TRUE
                  /\ DOMAIN DepsOf(new) = DOMAIN DepsOf(old) \cup DOMAIN extra
                  /\ \A k \in DOMAIN DepsOf(new) :
                        DepsOf(new)[k] = IF k \in DOMAIN extra THEN extra[k]
                                         ELSE DepsOf(old)[k]

\* C9 witness: a manifest with dependency a was merged with extra
\* dependencies a (another version) and b
C9_Witness ==
    /\ pc = "merged"
    /\ PathExists(pre.files, PackageJsonPath)
    /\ DOMAIN DepsOf(pre.files[PackageJsonPath]) = {"a"}
    /\ DepsOf(pre.files[PackageJsonPath])["a"] = "1.0"
    /\ args.additionalDeps.given
    /\ DOMAIN args.additionalDeps.deps = {"a", "b"}
    /\ args.additionalDeps.deps["a"] = "2.0"
    /\ thrown = NoError
    /\ DepsOf(files[PackageJsonPath])["a"] = "2.0"

\* C10: when the directory has no manifest, updatePackageJson raises no
\* error, creates no manifest and changes no other file.
C10_MissingManifestNoOp ==
    (pc = "merged" /\ ~PathExists(pre.files, PackageJsonPath))
        => /\ thrown = NoError
           /\ ~PathExists(files, PackageJsonPath)
           /\ DOMAIN files = DOMAIN pre.files
           /\ \A p \in DOMAIN files : files[p] = pre.files[p]

\* C10 witness: the call was made with extra dependencies on a directory
\* holding another file and no manifest
C10_Witness ==
    /\ pc = "merged"
    /\ ~PathExists(pre.files, PackageJsonPath)
    /\ PathExists(files, <<"notes.txt">>)
    /\ args.additionalDeps.given
    /\ DOMAIN args.additionalDeps.deps = {"a", "b"}

\* the fields updatePackageJson sets
ManagedFields == {"name", "version", "private", "dependencies"}

\* C11: updatePackageJson leaves every manifest field other than name,
\* version, private and dependencies present with its value, and without
\* extra dependencies it leaves the dependencies field as it was: the same
\* value if it was there, still absent if it was not.
C11_OtherFieldsKept ==
    (pc = "merged" /\ PathExists(pre.files, PackageJsonPath))
        => /\ PathExists(files, PackageJsonPath)
           /\ LET old == pre.files[PackageJsonPath]
                  new == files[PackageJsonPath]
              IN  /\ \A k \in DOMAIN old \ ManagedFields :
                        k \in DOMAIN new /\ new[k] = old[k]
                  /\ ~args.additionalDeps.given
                        => /\ ("dependencies" \in DOMAIN new)
                                <=> ("dependencies" \in DOMAIN old)
                           /\ "dependencies" \in DOMAIN old
                                => new["dependencies"] = old["dependencies"]

\* C11 witness: a manifest with scripts, devDependencies and engines and no
\* dependencies was renamed by a call without extra dependencies
C11_Witness ==
    /\ pc = "merged"
    /\ thrown = NoError
    /\ PathExists(pre.files, PackageJsonPath)
    /\ {"scripts", "devDependencies", "engines"} \subseteq DOMAIN pre.files[PackageJsonPath]
    /\ "dependencies" \notin DOMAIN pre.files[PackageJsonPath]
    /\ ~args.additionalDeps.given
    /\ "name" \in DOMAIN pre.files[PackageJsonPath]
    /\ files[PackageJsonPath]["name"] # pre.files[PackageJsonPath]["name"]
    /\ files[PackageJsonPath]["scripts"] = "user scripts"
    /\ "dependencies" \notin DOMAIN files[PackageJsonPath]

----------------------------------------------------------------------------
(* Properties of createEnvFile (checked under Spec, where createProject    *)
(* calls it)                                                               *)

\* createEnvFile has returned normally and nothing was rolled back since
EnvWritten ==
    \/ pc \in {"gitignore", "git", "install"}
    \/ pc = "returned" /\ thrown = NoError
    \/ pc = "exited" /\ printed = "success"

\* the line has the form KEY=value, the value possibly empty
IsAssignment(line) ==
    /\ Len(line) \in {2, 3}
    /\ line[1] # "="
    /\ line[2] = "="

\* the line holds an equals sign somewhere
HasEquals(line) == \E i \in 1..Len(line) : line[i] = "="

\* the keys of the assignment lines of a file
KeysOf(content) ==
    { content[i][1] : i \in { j \in 1..Len(content) : IsAssignment(content[j]) } }

\* C12 as stated: every line of the secrets file has the form KEY=value and
\* every line of the redacted sibling the form KEY=, line by line with the
\* same key.
C12_EveryLineIsAssignment ==
    EnvWritten
        => LET env == files[EnvPath]
               example == files[EnvExamplePath]
           IN  /\ Len(example) = Len(env)
               /\ \A i \in 1..Len(env) :
                    /\ IsAssignment(env[i])
                    /\ example[i] = <<env[i][1], "=">>

\* C12 (amended): the secrets file and its redacted sibling have the same
\* number of lines in the same order; every line holding an equals sign has
\* the form KEY=value (the value may be empty) and its sibling line is KEY=
\* with the same key and nothing after the equals sign; every other line, a
\* comment or a blank line, is the same in both files; the key sets are equal.
C12_AssignmentLinesRedacted ==
    EnvWritten
        => LET env == files[EnvPath]
               example == files[EnvExamplePath]
           IN  /\ Len(example) = Len(env)
               /\ \A i \in 1..Len(env) :
                    IF HasEquals(env[i])
                    THEN /\ IsAssignment(env[i])
                         /\ example[i] = <<env[i][1], "=">>
                    ELSE example[i] = env[i]
               /\ KeysOf(example) = KeysOf(env)
               /\ \E i \in 1..Len(env) : Len(env[i]) = 3

\* C12 witness: createEnvFile wrote both files, the secrets file with a
\* comment line, a blank line and the PRIVATE_KEY placeholder, the sibling
\* with the placeholder erased
C12_Witness ==
    /\ EnvWritten
    /\ files[EnvPath][1] = <<"# Rootstock Configuration">>
    /\ files[EnvPath][3] = <<>>
    /\ files[EnvPath][5] = <<"PRIVATE_KEY", "=", "your_private_key_here">>
    /\ files[EnvExamplePath][5] = <<"PRIVATE_KEY", "=">>
    /\ "VITE_CONTRACT_ADDRESS" \in KeysOf(files[EnvExamplePath])

----------------------------------------------------------------------------
(* The network registry *)

ROOTSTOCK_NETWORKS ==
    [mainnet |-> [name |-> "Rootstock Mainnet", chainId |-> 30,
                  rpcUrl |-> "https://public-node.rsk.co",
                  explorer |-> "https://explorer.rsk.co"],
     testnet |-> [name |-> "Rootstock Testnet", chainId |-> 31,
                  rpcUrl |-> "https://public-node.testnet.rsk.co",
                  explorer |-> "https://explorer.testnet.rsk.co"]]

\* getNetworkConfig(network): the table indexed by the key.  For a key the
\* table does not hold the index expression yields undefined; nothing is thrown
GetNetworkConfig(network) ==
    IF network \in DOMAIN ROOTSTOCK_NETWORKS
    THEN [threw |-> FALSE, defined |-> TRUE, value |-> ROOTSTOCK_NETWORKS[network]]
    ELSE [threw |-> FALSE, defined |-> FALSE, value |-> <<>>]

----------------------------------------------------------------------------
(* deployContract, run in a working directory: files is that directory,    *)
(* args holds the --network option.  The external commands are taken not   *)
(* to touch package.json, .env or the two configuration files, and reading  *)
(* and writing .env is taken to succeed.                                    *)

\* the two errors deployContract throws itself, and a failed execSync
NoPackageJsonFound == [kind |-> "No package.json found", step |-> "manifest"]

NoConfigurationFound == [kind |-> "No Hardhat or Foundry configuration found", step |-> "toolchain"]

CommandError(step) == [kind |-> "Command failed", step |-> step]

HardhatConfigPath == <<"hardhat.config.js">>

FoundryTomlPath == <<"contracts", "foundry.toml">>

(* The private-key prompt *)

\* number of hex digits of a private key
KeyDigits == 64

\* most answers the prompt is given before it gets a valid one
MaxKeyAttempts == 2

HexDigits == Digits \cup {"a","b","c","d","e","f"} \cup {"A","B","C","D","E","F"}

\* privateKey.startsWith('0x')
StartsWith0x(s) == Len(s) >= 2 /\ s[1] = "0" /\ s[2] = "x"

\* the pattern with the optional prefix left out: 64 hex digits only
MatchesKeyPatternNoPrefix(s) ==
    Len(s) = KeyDigits /\ \A i \in 1..Len(s) : s[i] \in HexDigits

\* /^(0x)?[0-9a-fA-F]{64}$/.test(input)
MatchesKeyPattern(s) ==
    \/ Len(s) = KeyDigits /\ \A i \in 1..Len(s) : s[i] \in HexDigits
    \/ /\ StartsWith0x(s)
       /\ Len(s) = KeyDigits + 2
       /\ \A i \in 3..Len(s) : s[i] \in HexDigits

\* the validate callback of the prompt
ValidateKey(input) ==
    IF input = <<>> THEN "Private key is required"
    ELSE IF ~MatchesKeyPattern(input) THEN "Invalid private key format"
    ELSE "valid"

\* privateKey.startsWith('0x') ? privateKey.slice(2) : privateKey
StripPrefix(privateKey) ==
    IF StartsWith0x(privateKey)
    THEN SubSeq(privateKey, 3, Len(privateKey))
    ELSE privateKey

\* a sequence of characters as the text written into the file
KeyText(chars) ==
    IF chars = Rep("a", KeyDigits) THEN "aaaaaaaaaaaaaaaaaaaaaaaaaaaaaaaaaaaaaaaaaaaaaaaaaaaaaaaaaaaaaaaa"
    ELSE IF chars = Rep("F", KeyDigits) THEN "FFFFFFFFFFFFFFFFFFFFFFFFFFFFFFFFFFFFFFFFFFFFFFFFFFFFFFFFFFFFFFFF"
    ELSE IF chars = <<"0", "x">> \o Rep("a", KeyDigits) THEN "0xaaaaaaaaaaaaaaaaaaaaaaaaaaaaaaaaaaaaaaaaaaaaaaaaaaaaaaaaaaaaaaaa"
    ELSE IF chars = <<"0", "x">> \o Rep("F", KeyDigits) THEN "0xFFFFFFFFFFFFFFFFFFFFFFFFFFFFFFFFFFFFFFFFFFFFFFFFFFFFFFFFFFFFFFFF"
    ELSE "other text"

\* the file deployContract writes after the prompt
PromptedEnv(privateKey) ==
    << <<"PRIVATE_KEY", "=", KeyText(StripPrefix(privateKey))>>,
       <<"RSK_TESTNET_RPC_URL", "=", "https://public-node.testnet.rsk.co">>,
       <<"RSK_MAINNET_RPC_URL", "=", "https://public-node.rsk.co">> >>

\* what may be typed at the prompt
KeyInputs ==
    { <<>> } \cup
    { p \o Rep(h, n) \o t :
        p \in { <<>>, <<"0", "x">>, <<"0", "X">> },
        h \in { "a", "F", "g" },
        n \in (KeyDigits - 2)..(KeyDigits + 2),
        t \in { <<>>, <<" ">> } }

(* The deployment command's output: a sequence of words, single spaces     *)
(* between them, a colon being a word of its own that follows its          *)
(* predecessor without a space.                                            *)

Address1 == "0xAbCdEf0123456789aBcDeF0123456789AbCdEf01"

Address2 == "0x1111111111111111111111111111111111111111"

\* the words in which /0x[a-fA-F0-9]{40}/i matches at the start, with the
\* 42 characters it captures
Captured ==
    (Address1 :> Address1)
    @@ (Address2 :> Address2)
    @@ ("0x111111111111111111111111111111111111111122" :> Address2)
    @@ ("0XABCDEF0123456789ABCDEF0123456789ABCDEF01" :> "0XABCDEF0123456789ABCDEF0123456789ABCDEF01")

\* the words that end with a match of /deployed/i
EndsWithDeployed == {"deployed", "Deployed", "DEPLOYED", "redeployed"}

\* the words /(?:to|at)/i matches entirely
ToOrAt == {"to", "at", "To", "AT"}

\* the pattern /deployed (?:to|at):?\s*(0x[a-fA-F0-9]{40})/i matches from word i
MatchAt(out, i) ==
    /\ i + 2 <= Len(out)
    /\ out[i] \in EndsWithDeployed
    /\ out[i + 1] \in ToOrAt
    /\ \/ out[i + 2] \in DOMAIN Captured
       \/ /\ i + 3 <= Len(out)
          /\ out[i + 2] = ":"
          /\ out[i + 3] \in DOMAIN Captured

\* output.match(...): the leftmost match and its capture group
AddressMatch(out) ==
    IF \E i \in 1..Len(out) : MatchAt(out, i)
    THEN LET i == CHOOSE k \in 1..Len(out) :
                      MatchAt(out, k) /\ \A j \in 1..(k - 1) : ~MatchAt(out, j)
             word == IF out[i + 2] = ":" THEN out[i + 3] ELSE out[i + 2]
         IN  [found |-> TRUE, address |-> Captured[word]]
    ELSE [found |-> FALSE, address |-> ""]

\* what the deployment command may print
Outputs ==
    { <<"Deploying", "to", "Rootstock", "network...", "RootstockGreeter",
        "deployed", "to", ":", Address1, "Contract", "artifacts", "saved">>,
      <<"RootstockGreeter", "deployed", "at", ":", Address2>>,
      <<"Deployed", "AT", "0XABCDEF0123456789ABCDEF0123456789ABCDEF01">>,
      <<"deployed", "to", Address1, "redeployed", "at", ":", Address2>>,
      <<"deployed", "to", ":", "0x111111111111111111111111111111111111111122">>,
      <<"deployed", "to", ":", "0xabc123">>,
      <<"deployed", "in", "block", "7", Address1>>,
      <<"contract", Address1, "deployed", "to", "rsktestnet">>,
      <<"Done">>,
      <<>> }

\* the explorer page of an address on the network
ExplorerUrl(network, contractAddress) ==
    IF network = "mainnet"
    THEN <<"https://explorer.rsk.co", "/address/", contractAddress>>
    ELSE <<"https://explorer.testnet.rsk.co", "/address/", contractAddress>>

(* Writing the address into .env *)

KeyName == "VITE_CONTRACT_ADDRESS"

\* the tokens that end with the key name
EndsWithKeyName == {KeyName, "OLD_VITE_CONTRACT_ADDRESS", "# VITE_CONTRACT_ADDRESS"}

\* the tokens that contain the key name
ContainsKeyName ==
    EndsWithKeyName \cup {"# set VITE_CONTRACT_ADDRESS after deployment"}

\* envContent.includes('VITE_CONTRACT_ADDRESS')
IncludesKeyName(content) ==
    \E i \in 1..Len(content) : \E j \in 1..Len(content[i]) :
        content[i][j] \in ContainsKeyName

\* /VITE_CONTRACT_ADDRESS=.*/ matches in the line from token i on
KeyAssignedAt(line, i) ==
    i < Len(line) /\ line[i] \in EndsWithKeyName /\ line[i + 1] = "="

\* one line under replace(/VITE_CONTRACT_ADDRESS=.*/g, ...): the match runs
\* from the key name to the end of the line, what precedes it stays
ReplaceAddressLine(line, contractAddress) ==
    IF \E i \in 1..Len(line) : KeyAssignedAt(line, i)
    THEN LET i == CHOOSE k \in 1..Len(line) :
                      KeyAssignedAt(line, k) /\ \A j \in 1..(k - 1) : ~KeyAssignedAt(line, j)
         IN  SubSeq(line, 1, i) \o <<"=", contractAddress>>
    ELSE line

\* envContent.replace(/VITE_CONTRACT_ADDRESS=.*/g, `VITE_CONTRACT_ADDRESS=${contractAddress}`)
ReplaceAddress(content, contractAddress) ==
    [i \in 1..Len(content) |-> ReplaceAddressLine(content[i], contractAddress)]

\* fs.appendFile(envPath, `\nVITE_CONTRACT_ADDRESS=${contractAddress}`)
AppendAddress(content, contractAddress) ==
    Append(content, <<KeyName, "=", contractAddress>>)

\* the address line appended whatever .env holds
UpdatedEnvAppends(content, contractAddress) ==
    AppendAddress(content, contractAddress)

\* the content of .env after the address was extracted
UpdatedEnv(content, contractAddress) ==
    IF ~IncludesKeyName(content)
    THEN AppendAddress(content, contractAddress)
    ELSE ReplaceAddress(content, contractAddress)

(* The steps of deployContract *)

HardhatCompile == [cmd |-> "npx hardhat compile", arg |-> <<>>]

\* the deployment command for the toolchain and the --network option
DeployCommand(isHardhat, network) ==
    IF isHardhat
    THEN [cmd |-> "npx hardhat run scripts/deploy.js --network", arg |-> <<"rsk", network>>]
    ELSE [cmd |-> "cd contracts && forge script script/Deploy.s.sol --broadcast -vvv --rpc-url",
          arg |-> << IF network = "mainnet" THEN "https://public-node.rsk.co"
                     ELSE "https://public-node.testnet.rsk.co" >>]

\* execSync(command): one entry of cmds
ExecSync(command, ok) == [cmd |-> command.cmd, arg |-> command.arg, ok |-> ok]

\* the test for package.json left out
CheckPackageJsonSkipped ==
    /\ pc = "deploy"
    /\ pc' = "secrets"
    /\ UNCHANGED <<args, name, validation, template, exists, files, pre, pending,
                   thrown, cmds, warnings, printed, exitCode, packageManager,
                   templateDir, prompt, output, report, foreign, deploys>>

\* deploy.ts:18-21: no package.json in the working directory is an error
CheckPackageJson ==
    /\ pc = "deploy"
    /\ IF PathExists(files, PackageJsonPath)
       THEN pc' = "secrets" /\ UNCHANGED <<thrown, printed>>
       ELSE pc' = "failed" /\ thrown' = NoPackageJsonFound /\ printed' = "error"
    /\ UNCHANGED <<args, name, validation, template, exists, files, pre, pending,
                   cmds, warnings, exitCode, packageManager, templateDir,
                   prompt, output, report, foreign, deploys>>

\* deploy.ts:24-25: is there a .env
CheckEnv ==
    /\ pc = "secrets"
    /\ pc' = IF PathExists(files, EnvPath) THEN "detect" ELSE "prompt"
    /\ UNCHANGED <<args, name, validation, template, exists, files, pre, pending,
                   thrown, cmds, warnings, printed, exitCode, packageManager,
                   templateDir, prompt, output, report, foreign, deploys>>

\* deploy.ts:26-48: one answer at the prompt; a rejected answer is asked for
\* again, an accepted one is written to .env
PromptKey ==
    /\ pc = "prompt"
    /\ \E input \in KeyInputs :
        LET answer == ValidateKey(input)
        IN  /\ answer # "valid" => prompt.attempts + 1 < MaxKeyAttempts
            /\ prompt' = [asked |-> TRUE, attempts |-> prompt.attempts + 1,
                          input |-> input, answer |-> answer]
            /\ IF answer = "valid"
               THEN /\ files' = WriteFile(files, EnvPath, PromptedEnv(input))
                    /\ pc' = "detect"
               ELSE UNCHANGED <<files, pc>>
    /\ UNCHANGED <<args, name, validation, template, exists, pre, pending,
                   thrown, cmds, warnings, printed, exitCode, packageManager,
                   templateDir, output, report, foreign, deploys>>

\* deploy.ts:52-57: which configuration file is there; none is an error
DetectToolchain ==
    /\ pc = "detect"
    /\ LET isHardhat == PathExists(files, HardhatConfigPath)
           isFoundry == PathExists(files, FoundryTomlPath)
       IN  IF ~isHardhat /\ ~isFoundry
           THEN /\ pc' = "failed"
                /\ thrown' = NoConfigurationFound
                /\ printed' = "error"
           ELSE /\ pc' = IF isHardhat THEN "compile" ELSE "run"
                /\ UNCHANGED <<thrown, printed>>
    /\ UNCHANGED <<args, name, validation, template, exists, files, pre, pending,
                   cmds, warnings, exitCode, packageManager, templateDir,
                   prompt, output, report, foreign, deploys>>

\* the compile step with its failure passed over
CompileFailureIgnored ==
    /\ pc = "compile"
    /\ \E ok \in BOOLEAN :
        /\ cmds' = Append(cmds, ExecSync(HardhatCompile, ok))
        /\ pc' = "run"
    /\ UNCHANGED <<args, name, validation, template, exists, files, pre, pending,
                   thrown, printed, warnings, exitCode, packageManager, templateDir,
                   prompt, output, report, foreign, deploys>>

\* deploy.ts:65: the Hardhat project is compiled first
Compile ==
    /\ pc = "compile"
    /\ \E ok \in BOOLEAN :
        /\ cmds' = Append(cmds, ExecSync(HardhatCompile, ok))
        /\ IF ok
           THEN pc' = "run" /\ UNCHANGED <<thrown, printed>>
           ELSE pc' = "failed" /\ thrown' = CommandError("compile") /\ printed' = "error"
    /\ UNCHANGED <<args, name, validation, template, exists, files, pre, pending,
                   warnings, exitCode, packageManager, templateDir,
                   prompt, output, report, foreign, deploys>>

\* deploy.ts:66-82: the deployment command of the toolchain is run
RunDeploy ==
    /\ pc = "run"
    /\ LET command == DeployCommand(PathExists(files, HardhatConfigPath), args.network)
       IN  \/ \E out \in Outputs :
                /\ cmds' = Append(cmds, ExecSync(command, TRUE))
                /\ output' = out
                /\ pc' = "extract"
                /\ UNCHANGED <<thrown, printed>>
           \/ /\ cmds' = Append(cmds, ExecSync(command, FALSE))
              /\ pc' = "failed"
              /\ thrown' = CommandError("deploy")
              /\ printed' = "error"
              /\ UNCHANGED output
    /\ UNCHANGED <<args, name, validation, template, exists, files, pre, pending,
                   warnings, exitCode, packageManager, templateDir, prompt, report, foreign, deploys>>

\* .env is rewritten whether or not the output held an address
PersistAddressAlways ==
    /\ pc = "extract"
    /\ LET addressMatch == AddressMatch(output)
       IN  /\ report' = IF addressMatch.found
                        THEN [found |-> TRUE, address |-> addressMatch.address,
                              explorerUrl |-> ExplorerUrl(args.network, addressMatch.address)]
                        ELSE NoReport
           /\ files' = WriteFile(files, EnvPath,
                                 UpdatedEnv(files[EnvPath], addressMatch.address))
    /\ printed' = "success"
    /\ pc' = "done"
    /\ UNCHANGED <<args, name, validation, template, exists, pre, pending,
                   thrown, cmds, warnings, exitCode, packageManager, templateDir,
                   prompt, output, foreign, deploys>>

\* deploy.ts:87-118: an address found in the output is reported and written
\* to .env; without one nothing is written
PersistAddress ==
    /\ pc = "extract"
    /\ LET addressMatch == AddressMatch(output)
       IN  IF addressMatch.found
           THEN /\ report' = [found |-> TRUE, address |-> addressMatch.address,
                              explorerUrl |-> ExplorerUrl(args.network, addressMatch.address)]
                /\ files' = WriteFile(files, EnvPath,
                                      UpdatedEnv(files[EnvPath], addressMatch.address))
           ELSE UNCHANGED <<report, files>>
    /\ printed' = "success"
    /\ pc' = "done"
    /\ UNCHANGED <<args, name, validation, template, exists, pre, pending,
                   thrown, cmds, warnings, exitCode, packageManager, templateDir,
                   prompt, output, foreign, deploys>>

(* The working directories deploy is run in *)

\* the key of an earlier prompt
StoredKey == Rep("a", KeyDigits)

\* what .env may hold when deploy starts: the file createEnvFile wrote, the
\* file an earlier prompt wrote, either with the address of an earlier
\* deployment, and files edited by hand
EnvFileContents ==
    { EnvContent,
      ReplaceAddress(EnvContent, Address2),
      PromptedEnv(StoredKey),
      AppendAddress(PromptedEnv(StoredKey), Address2),
      << <<"PRIVATE_KEY", "=", "your_private_key_here">>,
         <<KeyName, "=", "0x...", "# Auto-populated after deployment">> >>,
      << <<KeyName, "=", Address2>>,
         <<"PRIVATE_KEY", "=", "your_private_key_here">>,
         <<KeyName, "=", Address1>>,
         <<>> >>,
      << <<"PRIVATE_KEY", "=", "your_private_key_here">>,
         <<"# set VITE_CONTRACT_ADDRESS after deployment">> >>,
      << <<"PRIVATE_KEY", "=", "your_private_key_here">>,
         <<"OLD_VITE_CONTRACT_ADDRESS", "=", Address2>>,
         <<>> >>,
      << <<"PRIVATE_KEY", "=", "your_private_key_here">>,
         <<KeyName>> >>,
      << <<"PRIVATE_KEY", "=", "your_private_key_here">>,
         <<"# VITE_CONTRACT_ADDRESS", "=", Address2>> >>,
      << <<>> >> }

\* a file put into the directory or not
WithFile(fs, present, p, content) == IF present THEN WriteFile(fs, p, content) ELSE fs

WorkingDirs ==
    { WithFile(WithFile(WithFile(env, pj, PackageJsonPath, UserManifest),
                        hh, HardhatConfigPath, "hardhatConfig"),
               fd, FoundryTomlPath, "foundryToml") :
        env \in { OtherFiles } \cup { WriteFile(OtherFiles, EnvPath, c) : c \in EnvFileContents },
        pj \in BOOLEAN, hh \in BOOLEAN, fd \in BOOLEAN }

\* what --network may be given: the option is passed on as typed
Networks == {"testnet", "mainnet", "staging"}

InitDeploy ==
    /\ pc = "deploy"
    /\ args \in [network : Networks]
    /\ exists = TRUE
    /\ files \in WorkingDirs
    /\ pre = [exists |-> TRUE, files |-> files]
    /\ name = <<>>
    /\ validation = NoResult
    /\ template = ""
    /\ packageManager = ""
    /\ pending = NoError
    /\ thrown = NoError
    /\ cmds = <<>>
    /\ warnings = <<>>
    /\ printed = "none"
    /\ exitCode = -1
    /\ templateDir = NoTemplateDir
    /\ prompt = NotAsked
    /\ output = NoOutput
    /\ report = NoReport
    /\ foreign = NoFiles
    /\ deploys = 0

NextDeploy ==
    \/ CheckPackageJson
    \/ CheckEnv
    \/ PromptKey
    \/ DetectToolchain
    \/ Compile
    \/ RunDeploy
    \/ PersistAddress

SpecDeploy == InitDeploy /\ [][NextDeploy]_vars

----------------------------------------------------------------------------
(* Properties of deployContract (checked under SpecDeploy) *)

\* deployContract has returned or thrown
DeployFinished == pc \in {"done", "failed"}

\* some word of the output starts a match of the address pattern
OutputHasAddress == \E i \in 1..Len(output) : MatchAt(output, i)

\* .env as it was when the deployment command ran: the file that was there,
\* or the one written after the prompt
EnvBeforeCommand ==
    IF PathExists(pre.files, EnvPath) THEN pre.files[EnvPath]
    ELSE PromptedEnv(prompt.input)

\* a line that assigns the contract-address field
IsAddressLine(line) == Len(line) >= 2 /\ line[1] = KeyName /\ line[2] = "="

\* C13: when the output holds a match of deployed to/at followed by an
\* address, deploy reports the first match in its original letter case and
\* stores it in .env: the existing contract-address lines are replaced in
\* place, and when there is none one line is appended.
C13_AddressStored ==
    (pc = "done" /\ OutputHasAddress)
        => LET a == AddressMatch(output).address
               old == EnvBeforeCommand
               new == files[EnvPath]
           IN  /\ report.found
               /\ report.address = a
               /\ IF \E i \in 1..Len(old) : IsAddressLine(old[i])
                  THEN /\ Len(new) = Len(old)
                       /\ \A i \in 1..Len(old) :
                            new[i] = IF IsAddressLine(old[i])
                                     THEN <<KeyName, "=", a>> ELSE old[i]
                  ELSE new = Append(old, <<KeyName, "=", a>>)

\* C14: when the deployment command succeeds and its output holds no
\* address, deploy ends without error, reports no address and leaves .env
\* as it was when the command ran (and the whole directory as it was found,
\* if .env was there from the start).
C14_NoAddressNoChange ==
    (pc = "done" /\ ~OutputHasAddress)
        => /\ thrown = NoError
           /\ report = NoReport
           /\ files[EnvPath] = EnvBeforeCommand
           /\ PathExists(pre.files, EnvPath) => files = pre.files

\* C14 witness: the command printed an address that is too short, in a
\* directory whose .env is the one createEnvFile wrote
C14_Witness ==
    /\ pc = "done"
    /\ output = <<"deployed", "to", ":", "0xabc123">>
    /\ Len(cmds) >= 1
    /\ cmds[Len(cmds)].ok
    /\ PathExists(pre.files, EnvPath)
    /\ pre.files[EnvPath] = EnvContent
    /\ files[EnvPath] = EnvContent
    /\ ~report.found

\* C15: a toolchain command is run only when exactly one of
\* hardhat.config.js and contracts/foundry.toml is present; with none or
\* both deploy fails with the no-configuration error and runs no command.
C15_ExactlyOneMarker ==
    LET isHardhat == PathExists(pre.files, HardhatConfigPath)
        isFoundry == PathExists(pre.files, FoundryTomlPath)
        exactlyOne == isHardhat # isFoundry
    IN  /\ cmds # <<>> => exactlyOne
        /\ (DeployFinished /\ PathExists(pre.files, PackageJsonPath) /\ ~exactlyOne)
              => thrown = NoConfigurationFound /\ cmds = <<>>

\* C16: the preconditions are checked in the order package.json, .env,
\* configuration file: without package.json deploy fails with the
\* no-package.json error, having shown no prompt, written no file and run no
\* command; a missing .env is prompted for and written before a missing
\* configuration file is reported, and that report precedes every command.
C16_ManifestCheckedFirst ==
    /\ ~PathExists(pre.files, PackageJsonPath)
          => /\ ~prompt.asked
             /\ files = pre.files
             /\ cmds = <<>>
             /\ pc # "deploy" => pc = "failed" /\ thrown = NoPackageJsonFound
    /\ thrown = NoPackageJsonFound => ~PathExists(pre.files, PackageJsonPath)
    /\ thrown = NoConfigurationFound
          => /\ cmds = <<>>
             /\ PathExists(files, EnvPath)
             /\ ~PathExists(pre.files, EnvPath) => prompt.answer = "valid"

\* C16 witness: deploy failed in a directory that has a Hardhat
\* configuration but neither package.json nor .env
C16_Witness ==
    /\ pc = "failed"
    /\ thrown = NoPackageJsonFound
    /\ ~PathExists(pre.files, EnvPath)
    /\ PathExists(pre.files, HardhatConfigPath)
    /\ ~prompt.asked
    /\ ~PathExists(files, EnvPath)

\* the error the claim expects for a network that is neither of the two
UnknownNetwork == [kind |-> "UnknownNetwork", step |-> "network"]

\* C17: with a network other than testnet and mainnet deploy runs no
\* command and fails with UnknownNetwork, and the registry lookup for that
\* network fails instead of returning a value.
C17_UnknownNetworkRejected ==
    args.network \notin {"testnet", "mainnet"}
        => /\ cmds = <<>>
           /\ (DeployFinished /\ thrown \notin {NoPackageJsonFound, NoConfigurationFound})
                 => thrown = UnknownNetwork
           /\ DeployFinished => GetNetworkConfig(args.network).threw

\* 64 hex digits, with or without a leading 0x
IsPrivateKey(s) ==
    LET digits == IF Len(s) = KeyDigits + 2 THEN SubSeq(s, 3, Len(s)) ELSE s
    IN  /\ Len(digits) = KeyDigits
        /\ \A i \in 1..Len(digits) : digits[i] \in HexDigits
        /\ Len(s) = KeyDigits + 2 => (s[1] = "0" /\ s[2] = "x")

\* the last 64 characters of s
KeyDigitsOf(s) == SubSeq(s, Len(s) - KeyDigits + 1, Len(s))

\* C18: deploy prompts only when .env is missing; the prompt accepts an
\* answer exactly when it is 64 hex digits with or without a leading 0x, the
\* PRIVATE_KEY it then writes is those 64 digits without the prefix, a
\* rejected answer is never written, and an .env that was there is neither
\* prompted for nor written before an address is stored.
C18_KeyAcceptedAndStored ==
    /\ PathExists(pre.files, EnvPath)
          => /\ ~prompt.asked
             /\ pc # "done" => files[EnvPath] = pre.files[EnvPath]
    /\ prompt.asked
          => /\ ~PathExists(pre.files, EnvPath)
             /\ (prompt.answer = "valid") <=> IsPrivateKey(prompt.input)
             /\ prompt.answer # "valid" => ~PathExists(files, EnvPath)
             /\ prompt.answer = "valid"
                   => files[EnvPath][1] =
                        <<"PRIVATE_KEY", "=", KeyText(KeyDigitsOf(prompt.input))>>

\* C18 witness: after a rejected answer the key 0xFF...F was typed and
\* PRIVATE_KEY was written as the 64 digits F
C18_Witness ==
    /\ prompt.asked
    /\ prompt.attempts = 2
    /\ prompt.input = <<"0", "x">> \o Rep("F", KeyDigits)
    /\ prompt.answer = "valid"
    /\ files[EnvPath][1] = <<"PRIVATE_KEY", "=", "FFFFFFFFFFFFFFFFFFFFFFFFFFFFFFFFFFFFFFFFFFFFFFFFFFFFFFFFFFFFFFFF">>

----------------------------------------------------------------------------
(* What the files of the generative templates say: the network entries of  *)
(* the toolchain configuration, the directory the deployment script writes *)
(* to, and the files and directories the generated files refer to.  An     *)
(* absent value is the empty sequence, a present one a sequence of one.    *)

\* networks of hardhat.config.js: the URL literal is the fallback of the
\* environment variable
HardhatNetworks ==
    [rsktestnet |-> [env |-> "RSK_TESTNET_RPC_URL",
                     url |-> <<"https://public-node.testnet.rsk.co">>,
                     chainId |-> <<31>>],
     rskmainnet |-> [env |-> "RSK_MAINNET_RPC_URL",
                     url |-> <<"https://public-node.rsk.co">>,
                     chainId |-> <<30>>]]

\* [rpc_endpoints] of foundry.toml: references to environment variables,
\* no URL and no chain id
FoundryRpcEndpoints ==
    [rsktestnet |-> [env |-> "RSK_TESTNET_RPC_URL", url |-> <<>>, chainId |-> <<>>],
     rskmainnet |-> [env |-> "RSK_MAINNET_RPC_URL", url |-> <<>>, chainId |-> <<>>]]

\* the network entries of a generated configuration file
NetworkEntries(content) ==
    IF content = "hardhatConfig" THEN HardhatNetworks ELSE FoundryRpcEndpoints

\* the configuration file a template generates
ConfigPath(t) == IF t = "hardhat-react" THEN HardhatConfigPath ELSE FoundryTomlPath

\* the directories the generated deployment script writes files into:
\* scripts/deploy.js saves the address and the artifact for the frontend,
\* Deploy.s.sol writes nothing
DeployScriptOutputDirs(t) ==
    IF t = "hardhat-react" THEN { <<"frontend", "src", "contracts">> } ELSE {}

\* the references of the frontend files, the same in both templates
FrontendReferences ==
    { [from |-> <<"frontend", "index.html">>, to |-> <<"frontend", "public", "rsk-logo.svg">>],
      [from |-> <<"frontend", "index.html">>, to |-> <<"frontend", "src", "main.jsx">>],
      [from |-> <<"frontend", "src", "main.jsx">>, to |-> <<"frontend", "src", "App.jsx">>],
      [from |-> <<"frontend", "src", "main.jsx">>, to |-> <<"frontend", "src", "index.css">>],
      [from |-> <<"frontend", "src", "App.jsx">>, to |-> <<"frontend", "src", "App.css">>],
      [from |-> <<"frontend", "src", "App.jsx">>,
       to |-> <<"frontend", "src", "contracts", "RootstockGreeter.json">>] }

HardhatReferences ==
    { [from |-> PackageJsonPath, to |-> <<"scripts", "deploy.js">>],
      [from |-> PackageJsonPath, to |-> <<"frontend">>],
      [from |-> HardhatConfigPath, to |-> <<"contracts">>],
      [from |-> HardhatConfigPath, to |-> <<"test">>],
      [from |-> <<"scripts", "deploy.js">>, to |-> <<"frontend", "src", "contracts">>] }
    \cup FrontendReferences

FoundryReferences ==
    { [from |-> PackageJsonPath, to |-> <<"contracts">>],
      [from |-> PackageJsonPath, to |-> <<"contracts", "script", "Deploy.s.sol">>],
      [from |-> PackageJsonPath, to |-> <<"frontend">>],
      [from |-> FoundryTomlPath, to |-> <<"contracts", "src">>],
      [from |-> <<"contracts", "script", "Deploy.s.sol">>,
       to |-> <<"contracts", "src", "RootstockGreeter.sol">>],
      [from |-> <<"contracts", "test", "RootstockGreeter.t.sol">>,
       to |-> <<"contracts", "src", "RootstockGreeter.sol">>] }
    \cup FrontendReferences

\* the references to files and directories of the project inside the files a
\* template generates (packages and installed libraries are not among them)
References(t) ==
    IF t = "hardhat-react" THEN HardhatReferences ELSE FoundryReferences

----------------------------------------------------------------------------
(* Properties of the generative templates (checked under Spec) *)

\* createTemplateStructure has just generated one of the two templates
Generated ==
    /\ pc = "manifest"
    /\ ~templateDir.exists
    /\ template \in SupportedTemplates

\* the entry of the generated configuration for a network of the registry
EntryName == [testnet |-> "rsktestnet", mainnet |-> "rskmainnet"]

\* C19: for both generative templates the deployment script names an output
\* directory that the materialization created, and the two network entries
\* of the generated configuration carry the RPC URL and the chain id of the
\* registry's testnet and mainnet.
C19_ScriptAndNetworksMatch ==
    Generated
        => /\ DeployScriptOutputDirs(template) # {}
           /\ \A d \in DeployScriptOutputDirs(template) :
                PathExists(files, d) /\ files[d] = Dir
           /\ \A n \in DOMAIN ROOTSTOCK_NETWORKS :
                LET entry == NetworkEntries(files[ConfigPath(template)])[EntryName[n]]
                IN  /\ entry.url = <<ROOTSTOCK_NETWORKS[n].rpcUrl>>
                    /\ entry.chainId = <<ROOTSTOCK_NETWORKS[n].chainId>>

\* C20: for both generative templates every file or directory a generated
\* file refers to was generated by the same materialization.
C20_ReferencesResolve ==
    Generated
        => \A r \in References(template) :
              PathExists(files, r.from) /\ PathExists(files, r.to)

----------------------------------------------------------------------------
(* Properties of the order of createProject's steps (checked under Spec) *)

\* git add -A is among the commands cs
StagingRan(cs) == \E i \in 1..Len(cs) : cs[i].cmd = "git add -A"

\* the initial commit was created
CommitCreated(cs) ==
    \E i \in 1..Len(cs) : cs[i].cmd = "git commit -m Initial commit" /\ cs[i].ok

\* the directory has an ignore list with the line .env
IgnoresEnv(fs) ==
    /\ PathExists(fs, GitignorePath)
    /\ \E i \in 1..Len(fs[GitignorePath]) : fs[GitignorePath][i] = <<".env">>

\* C21: in every step of createProject in which the staging command
\* git add -A runs, the ignore list naming .env is already in the target
\* directory, next to the .env it hides, and is still there afterwards: on
\* the generative path and on the copy path the commit cannot hold .env.
C21_IgnoreListBeforeStaging ==
    [][ (StagingRan(cmds') /\ ~StagingRan(cmds))
            => /\ IgnoresEnv(files)
               /\ PathExists(files, EnvPath)
               /\ IgnoresEnv(files') ]_vars

\* C21 witness: the initial commit was created in a project copied from a
\* packaged template whose own .gitignore the copy filter dropped
C21_Witness ==
    /\ pc = "install"
    /\ templateDir.exists
    /\ PathExists(files, <<"contracts", "Greeter.sol">>)
    /\ CommitCreated(cmds)
    /\ PathExists(files, EnvPath)
    /\ IgnoresEnv(files)

\* the positions of createProject in the order of its phases: each names
\* the phase that runs next, the last one the return to the caller
PhaseOrder ==
    <<"createProject", "mkdir", "template", "manifest", "env", "gitignore",
      "git", "install", "returned">>

\* the phases whose failure is fatal
FatalPhases == {"mkdir", "template", "manifest", "env", "gitignore"}

----------------------------------------------------------------------------
(* Properties of the external commands of createProject (checked under Spec) *)

\* the install command the claim names for each package manager
ExpectedInstall == [npm |-> "npm install", yarn |-> "yarn", pnpm |-> "pnpm install"]

\* the commands the flags call for after the first g git commands
ExpectedCommands(g) ==
    SubSeq(GitCommands, 1, g)
    \o (IF args.skipInstall THEN <<>> ELSE <<ExpectedInstall[packageManager]>>)

\* the names of the commands that were run, in order
CommandNames == [i \in 1..Len(cmds) |-> cmds[i].cmd]

\* createProject returned normally
ReturnedNormally == pc = "returned" /\ thrown = NoError

\* C23 as stated: a createProject that returns normally has run git init,
\* git add and git commit, in this order, exactly if skipGit is unset,
\* followed by the one install command of the package manager exactly if
\* skipInstall is unset, all in the target directory, and nothing else.
C23_CommandsIffFlags ==
    ReturnedNormally
        => /\ CommandNames = ExpectedCommands(IF args.skipGit THEN 0 ELSE Len(GitCommands))
           /\ \A i \in 1..Len(cmds) : cmds[i].cwd = "projectPath"

\* C23 (amended): a createProject that returns normally has run, in the
\* target directory and in this order: if skipGit is unset, git init, git
\* add and git commit up to and including the first of them that fails
\* (all three if none fails), and nothing of git if it is set; then, if
\* skipInstall is unset, exactly one install command, yarn for yarn, pnpm
\* install for pnpm, npm install for npm, and none if it is set.  With both
\* flags set, and in a call that fails, no command runs.
C23_CommandsFollowFlags ==
    /\ ReturnedNormally
          => /\ \E g \in 0..Len(GitCommands) :
                   /\ (g = 0) <=> args.skipGit
                   /\ CommandNames = ExpectedCommands(g)
                   /\ \A i \in 1..(g - 1) : cmds[i].ok
                   /\ (g > 0 /\ g < Len(GitCommands)) => ~cmds[g].ok
             /\ \A i \in 1..Len(cmds) : cmds[i].cwd = "projectPath"
             /\ (args.skipGit /\ args.skipInstall) => cmds = <<>>
    /\ (pc = "returned" /\ thrown # NoError) => cmds = <<>>

\* C23 witness: with neither flag set and yarn as package manager the
\* three git commands and then yarn were run
C23_Witness ==
    /\ ReturnedNormally
    /\ ~args.skipGit
    /\ ~args.skipInstall
    /\ packageManager = "yarn"
    /\ CommandNames = GitCommands \o <<"yarn">>
    /\ \A i \in 1..Len(cmds) : cmds[i].ok

\* the contract-address lines of a directory's .env, in order (none when
\* there is no .env)
AddressLines(fs) ==
    IF PathExists(fs, EnvPath)
    THEN SelectSeq(fs[EnvPath], IsAddressLine)
    ELSE <<>>

\* some command of this call failed
DeployCommandFailed == \E i \in 1..Len(cmds) : ~cmds[i].ok

\* C24: a failing compile or deployment command makes deploy fail with the
\* command's error: the failing command is the last one run (after a failed
\* Hardhat compile no deployment command runs), no address is reported, and
\* the contract-address lines of .env are those from before the call, .env
\* being as it was when the command ran.
C24_CommandFailureFails ==
    DeployCommandFailed
        => /\ pc = "failed"
           /\ thrown \in {CommandError("compile"), CommandError("deploy")}
           /\ printed = "error"
           /\ \A i \in 1..Len(cmds) : ~cmds[i].ok <=> i = Len(cmds)
           /\ thrown = CommandError("compile")
                 => cmds = <<ExecSync(HardhatCompile, FALSE)>>
           /\ thrown = CommandError("deploy")
                 => cmds[Len(cmds)].cmd # HardhatCompile.cmd
           /\ report = NoReport
           /\ AddressLines(files) = AddressLines(pre.files)
           /\ files[EnvPath] = EnvBeforeCommand

\* C24 witness: the Hardhat compile failed in a directory whose .env holds
\* the address of an earlier deployment
C24_Witness ==
    /\ pc = "failed"
    /\ thrown = CommandError("compile")
    /\ cmds = <<ExecSync(HardhatCompile, FALSE)>>
    /\ AddressLines(pre.files) = << <<KeyName, "=", Address2>> >>
    /\ AddressLines(files) = AddressLines(pre.files)

----------------------------------------------------------------------------
(* Properties of the template copy (checked under Spec) *)

\* no segment of the path holds one of the four filtered names
PassesNameFilter(p) ==
    \A k \in 1..Len(p) :
        \A fragment \in {"node_modules", ".git", "dist", ".DS_Store"} :
            ~Includes(p[k], fragment)

\* the packaged template was copied and the next phase has not started
TemplateCopied == pc = "manifest" /\ templateDir.exists

\* C25: when the packaged template directory exists, the target holds after
\* the template phase exactly the template's entries that pass the name
\* filter with all their parents, each with the template's content, and
\* nothing the generative procedure writes.
C25_CopyExactlyFiltered ==
    TemplateCopied
        => /\ \A i \in 1..Len(templateDir.writes) :
                LET w == templateDir.writes[i]
                IN  /\ PathExists(files, w.path) <=> PassesNameFilter(w.path)
                    /\ PassesNameFilter(w.path) => files[w.path] = w.content
           /\ \A p \in DOMAIN files :
                \E i \in 1..Len(templateDir.writes) : templateDir.writes[i].path = p

\* C25 witness: of the full packaged template the contract was copied, and
\* neither the dependency under node_modules nor redist nor .gitignore
C25_Witness ==
    /\ TemplateCopied
    /\ templateDir = PackagedFull
    /\ files[<<"contracts", "Greeter.sol">>] = "packaged contract"
    /\ ~PathExists(files, <<"node_modules", "dep.js">>)
    /\ ~PathExists(files, <<"redist">>)
    /\ ~PathExists(files, <<".gitignore">>)

----------------------------------------------------------------------------
(* createProject beside another process working on the same projectPath *)

\* what the other process, or a second createProject for the same path,
\* puts into the directory it creates
ForeignEntries ==
    { WriteFile(NoFiles, <<"notes.txt">>, "other process"),
      WriteFile(EnsureDir(NoFiles, <<"contracts">>),
                <<"contracts", "Mine.sol">>, "other project") }

\* between pathExists (line 69) and ensureDir (line 78) nothing holds the
\* path: another process may create the directory and write into it
OtherProcessCreates ==
    /\ pc = "mkdir"
    /\ ~exists
    /\ foreign = NoFiles
    /\ \E entries \in ForeignEntries :
         /\ foreign' = entries
         /\ files' = entries
    /\ exists' = TRUE
    /\ UNCHANGED <<pc, args, name, validation, template, pre, pending, thrown,
                   cmds, warnings, printed, exitCode, packageManager, templateDir,
                   prompt, output, report, deploys>>

NextRace ==
    \/ InitAction
    \/ CheckExists
    \/ OtherProcessCreates
    \/ Mkdir
    \/ Materialize
    \/ Manifest
    \/ EnvFiles
    \/ Gitignore
    \/ Git
    \/ Install
    \/ Catch
    \/ InitReturn

SpecRace == Init /\ [][NextRace]_vars

\* C26: a createProject that fails leaves in place whatever another process
\* put into the target directory after the existence check: the directory
\* and every foreign entry are still there when the call has thrown.
C26_RollbackKeepsForeign ==
    (pc = "returned" /\ thrown # NoError)
        => \A p \in DOMAIN foreign : exists /\ PathExists(files, p)

----------------------------------------------------------------------------
(* Properties of the .env update of deployContract (checked under SpecDeploy) *)

\* C27: whenever deploy extracts an address, whatever .env held before,
\* .env afterwards has a line that is exactly VITE_CONTRACT_ADDRESS=<address>
\* and every line that was not an assignment of VITE_CONTRACT_ADDRESS is
\* where and what it was.
C27_AddressLineAlwaysWritten ==
    (pc = "done" /\ report.found)
        => LET old == EnvBeforeCommand
               new == files[EnvPath]
           IN  /\ \E i \in 1..Len(new) : new[i] = <<KeyName, "=", report.address>>
               /\ \A i \in 1..Len(old) :
                    ~IsAddressLine(old[i]) => (i <= Len(new) /\ new[i] = old[i])

----------------------------------------------------------------------------
(* deploy run again and again in one working directory *)

\* how many times deploy is started again
MaxDeploys == 2

\* a project directory whose .env, if any, is the one createEnvFile wrote
ProjectDirs ==
    { WithFile(WithFile(WriteFile(env, PackageJsonPath, UserManifest),
                        hh, HardhatConfigPath, "hardhatConfig"),
               fd, FoundryTomlPath, "foundryToml") :
        env \in { OtherFiles, WriteFile(OtherFiles, EnvPath, EnvContent) },
        hh \in BOOLEAN, fd \in BOOLEAN }

InitRedeploy ==
    /\ pc = "deploy"
    /\ args \in [network : Networks]
    /\ exists = TRUE
    /\ files \in ProjectDirs
    /\ pre = [exists |-> TRUE, files |-> files]
    /\ name = <<>>
    /\ validation = NoResult
    /\ template = ""
    /\ packageManager = ""
    /\ pending = NoError
    /\ thrown = NoError
    /\ cmds = <<>>
    /\ warnings = <<>>
    /\ printed = "none"
    /\ exitCode = -1
    /\ templateDir = NoTemplateDir
    /\ prompt = NotAsked
    /\ output = NoOutput
    /\ report = NoReport
    /\ foreign = NoFiles
    /\ deploys = 0

\* the deploy command started once more in the directory the last call left
DeployAgain ==
    /\ pc \in {"done", "failed"}
    /\ deploys < MaxDeploys
    /\ deploys' = deploys + 1
    /\ pc' = "deploy"
    /\ args' \in [network : Networks]
    /\ pre' = [exists |-> exists, files |-> files]
    /\ thrown' = NoError
    /\ cmds' = <<>>
    /\ printed' = "none"
    /\ prompt' = NotAsked
    /\ output' = NoOutput
    /\ report' = NoReport
    /\ UNCHANGED <<name, validation, template, exists, files, pending, warnings,
                   exitCode, packageManager, templateDir, foreign>>

NextRedeploy ==
    \/ CheckPackageJson
    \/ CheckEnv
    \/ PromptKey
    \/ DetectToolchain
    \/ Compile
    \/ RunDeploy
    \/ PersistAddress
    \/ DeployAgain

SpecRedeploy == InitRedeploy /\ [][NextRedeploy]_vars

\* C28: in a directory whose .env was written by createEnvFile or by the
\* key prompt of deploy, after every deploy that extracts an address,
\* however many deploys came before, .env has exactly one
\* VITE_CONTRACT_ADDRESS line and it holds the address of this deploy; a
\* deploy that extracts the address .env already holds leaves the whole
\* directory as it was.
C28_OneLineLatestAddress ==
    (pc = "done" /\ report.found)
        => /\ AddressLines(files) = << <<KeyName, "=", report.address>> >>
           /\ AddressLines(pre.files) = AddressLines(files) => files = pre.files

\* C28 witness: a later deploy extracted another address than the one the
\* deploy before it had stored
C28_Witness ==
    /\ pc = "done"
    /\ deploys >= 1
    /\ report.found
    /\ report.address = Address1
    /\ AddressLines(pre.files) = << <<KeyName, "=", Address2>> >>
    /\ AddressLines(files) = << <<KeyName, "=", Address1>> >>

----------------------------------------------------------------------------
(* deploy run in the directory a successful init has produced *)

\* the user changes into the new project and runs the deploy command
StartDeploy ==
    /\ pc = "exited"
    /\ exitCode = 0
    /\ pc' = "deploy"
    /\ args' \in [network : Networks]
    /\ pre' = [exists |-> exists, files |-> files]
    /\ cmds' = <<>>
    /\ printed' = "none"
    /\ UNCHANGED <<name, validation, template, exists, files, pending, thrown,
                   warnings, exitCode, packageManager, templateDir, prompt,
                   output, report, foreign, deploys>>

\* the steps of init and then of deploy; the key prompt is not among them,
\* no behaviour getting to it as long as pc # "prompt"
NextInitDeploy ==
    \/ InitAction
    \/ CheckExists
    \/ Mkdir
    \/ Materialize
    \/ Manifest
    \/ EnvFiles
    \/ Gitignore
    \/ Git
    \/ Install
    \/ Catch
    \/ InitReturn
    \/ StartDeploy
    \/ CheckPackageJson
    \/ CheckEnv
    \/ DetectToolchain
    \/ Compile
    \/ RunDeploy
    \/ PersistAddress

SpecInitDeploy == Init /\ [][NextInitDeploy]_vars

\* deploy is running or has ended
DeployPhase ==
    pc \in {"deploy", "secrets", "prompt", "detect", "compile", "run", "extract",
            "done", "failed"}

\* `rsk${options.network}`: the network name handed to Hardhat
ProfileName == [testnet |-> "rsktestnet", mainnet |-> "rskmainnet", staging |-> "rskstaging"]

\* the value .env assigns to a variable (none: the empty sequence)
EnvValue(content, var) ==
    IF \E i \in 1..Len(content) : Len(content[i]) >= 2 /\ content[i][1] = var /\ content[i][2] = "="
    THEN LET i == CHOOSE k \in 1..Len(content) :
                      Len(content[k]) >= 2 /\ content[k][1] = var /\ content[k][2] = "="
         IN  SubSeq(content[i], 3, Len(content[i]))
    ELSE <<>>

\* the command names a network that the generated configuration defines: for
\* Hardhat by the name of an entry of networks, for Foundry by the URL that
\* the generated .env gives to the variable an entry of rpc_endpoints reads
PointsAtGeneratedProfile(c, network) ==
    IF template = "hardhat-react"
    THEN /\ c.arg = <<"rsk", network>>
         /\ ProfileName[network] \in DOMAIN NetworkEntries(files[HardhatConfigPath])
    ELSE /\ network \in DOMAIN EntryName
         /\ EntryName[network] \in DOMAIN NetworkEntries(files[FoundryTomlPath])
         /\ c.arg = EnvValue(files[EnvPath],
                             NetworkEntries(files[FoundryTomlPath])[EntryName[network]].env)

\* the script file the deployment command of a template names
DeployScriptPath(t) ==
    IF t = "hardhat-react" THEN <<"scripts", "deploy.js">>
    ELSE <<"contracts", "script", "Deploy.s.sol">>

\* init generated one of the two templates and deploy was started
DeployInGenerated ==
    DeployPhase /\ ~templateDir.exists /\ template \in SupportedTemplates

\* C29: in a project that a successful createProject generated from one of
\* the two templates, deploy finds package.json and .env (it neither fails
\* for a missing package.json nor asks for a key), finds exactly the marker
\* of the template, and every command it runs is the template's toolchain
\* command, naming a script file and a network profile that were generated.
C29_GeneratedProjectDeployable ==
    DeployInGenerated
        => /\ PathExists(files, PackageJsonPath)
           /\ PathExists(files, EnvPath)
           /\ pc # "prompt"
           /\ ~prompt.asked
           /\ thrown \notin {NoPackageJsonFound, NoConfigurationFound}
           /\ PathExists(files, HardhatConfigPath) <=> template = "hardhat-react"
           /\ PathExists(files, FoundryTomlPath) <=> template = "foundry-vite"
           /\ \A i \in 1..Len(cmds) :
                \/ /\ template = "hardhat-react"
                   /\ cmds[i].cmd = HardhatCompile.cmd
                \/ /\ cmds[i].cmd = DeployCommand(template = "hardhat-react", args.network).cmd
                   /\ PathExists(files, DeployScriptPath(template))
                   /\ PointsAtGeneratedProfile(cmds[i], args.network)

====
